---------------------------- MODULE Spec2Model ----------------------------
(***************************************************************************)
(* Frame-capture and encode-staging pipeline of the reel generator:        *)
(* AppContent.handleExport (src/unnamed/part_002) and the export mode of   *)
(* PixiCanvas (src/src/components/PixiCanvas.tsx).                         *)
(*                                                                         *)
(* handleExport is one async function.  Every action below is the code     *)
(* that runs between two suspension points (await) of handleExport or of   *)
(* one of the async frame / write tasks it launches.                       *)
(*                                                                         *)
(* A pixel buffer is modelled by its length in bytes and by the rendered   *)
(* frame whose content it holds; the preset batch sizes and the frame      *)
(* count are scaled down (see the bounds), every other number is the       *)
(* program's.                                                              *)
(***************************************************************************)
EXTENDS Integers, Sequences, FiniteSets, Bags, TLC

-----------------------------------------------------------------------------
(* Bounds of the model *)

\* frameCount = settings.duration * frameRate, scaled down
MaxFrameCount == 18
\* frameCaptureSize of the presets fast / balanced / quality (30 / 20 / 10), scaled
FastCaptureSize == 3
BalancedCaptureSize == 2
QualityCaptureSize == 1
\* writeBatchSize of the presets fast / balanced / quality (20 / 15 / 8), scaled
FastWriteBatch == 2
BalancedWriteBatch == 2
QualityWriteBatch == 1
\* number of failures of an external call (GPU, encoder, allocation) in one run
MaxFaults == 1
\* frame counts of the sessions that start from every render state
ShortFrameCount == 2
\* frame counts the transport estimate is evaluated on
MaxEstimateFrames == 200
\* calls of setExportMode remembered
ModeHistory == 3
\* invocations of handleExport in a behaviour of several sessions
MaxSessions == 2
\* 'progress' events of the encoder during one ffmpeg.exec
MaxProgressEvents == 1
\* frame counts of the capture progress: up to 20 s at 30 frames per second
MaxProgressFrames == 600

-----------------------------------------------------------------------------
(* Program constants *)

BytesPerPixel == 4
\* 1.5 * 1024^3, the limit of `totalMemoryGB > 1.5`
RawLimitBytes == 1610612736
\* a frame task yields to the event loop when frameIndex % 30 === 0
YieldEvery == 30
\* old payloads are cleared on every 2nd batch, once batchIndex > 6
GcEvery == 2
KeepBatches == 6
\* the share of the progress bar the capture stage fills
CaptureShare == 30
\* frames per chunk of the raw concatenation loop
MaxChunkFrames == 100
\* Number.MAX_SAFE_INTEGER does not fit TLC's integers; any value above every
\* idle limit in use stands for it
MaxSafeInteger == 2147483647
\* ticker limits written by setExportMode
ExportMaxFPS == 0
ExportMinFPS == 0
NormalMaxFPS == 0
NormalMinFPS == 10
\* the most idle pixel buffers and idle canvases the pools keep
PixelBufferPoolMax == 10
TempCanvasPoolMax == 5

\* renderer.textureGC.maxIdle before an export (PIXI's default, 60 * 60 frames)
DefaultMaxIdle == 3600

NoFrame == 0 - 1

Presets == {"fast", "balanced", "quality"}

\* exportConfig[settings.exportQuality]; exportResolution is num/den
exportConfig(preset) ==
  CASE preset = "fast" ->
         [frameRate |-> 24, frameCaptureSize |-> FastCaptureSize,
          writeBatchSize |-> FastWriteBatch, useRawPixels |-> TRUE,
          resNum |-> 3, resDen |-> 4]
    [] preset = "balanced" ->
         [frameRate |-> 30, frameCaptureSize |-> BalancedCaptureSize,
          writeBatchSize |-> BalancedWriteBatch, useRawPixels |-> TRUE,
          resNum |-> 1, resDen |-> 1]
    [] OTHER ->
         [frameRate |-> 30, frameCaptureSize |-> QualityCaptureSize,
          writeBatchSize |-> QualityWriteBatch, useRawPixels |-> FALSE,
          resNum |-> 1, resDen |-> 1]

\* canvas.width x canvas.height of the PIXI application
Canvases == { [w |-> 1080, h |-> 1920], [w |-> 16384, h |-> 16384] }

Min(a, b) == IF a < b THEN a ELSE b

Last(seq) == seq[Len(seq)]

\* Math.ceil(a / b) for a >= 0, b > 0
CeilDiv(a, b) == (a + b - 1) \div b

\* Math.floor(actualCanvasWidth * config.exportResolution)
ExportDim(canvasDim, config) == (canvasDim * config.resNum) \div config.resDen

\* A frame size counted in pixels instead of bytes.
FramePixelCountNoChannels(exportWidth, exportHeight) == exportWidth * exportHeight

\* exportWidth * exportHeight * 4
FramePixelCount(exportWidth, exportHeight) == exportWidth * exportHeight * BytesPerPixel


-----------------------------------------------------------------------------
(* Buffers and files *)

\* a Uint8Array: its length and the rendered frame whose pixels (or PNG
\* encoding) it holds; a zero-length array holds no frame
Buffer(kind, len, frame) == [kind |-> kind, len |-> len, frame |-> frame]

\* new Uint8Array(0)
EmptyBuffer == Buffer("rgba", 0, NoFrame)

\* file names of the encoder's in-memory file system
RawFile == <<"raw_video.rgba">>
AudioFile == <<"audio.mp3">>
OutputFile == <<"output.mp4">>
\* `frame${n}.png`
FrameFile(n) == <<"frame", n, ".png">>

\* ffmpeg.writeFile(name, data)
WriteFile(files, name, data) ==
  [n \in (DOMAIN files) \cup {name} |-> IF n = name THEN data ELSE files[n]]

\* ffmpeg.deleteFile for every name of a set
DeleteFiles(files, names) == [n \in (DOMAIN files) \ names |-> files[n]]

NoFiles == [n \in {} |-> EmptyBuffer]

-----------------------------------------------------------------------------
VARIABLES
  \* React state of AppContent
  exporting, exportProgress, isPlaying,
  \* the encoder: ffmpeg.loaded, its file system, the arguments of every exec
  ffmpegLoaded, fs, execLog,
  \* PixiCanvas: stage, layers, ticker and the _original* slots; textureGC.maxIdle
  render, maxIdle,
  \* what handleExport closes over: settings.exportQuality, the frame count
  \* settings.duration * frameRate, the canvas size, whether the canvas has a
  \* WebGL context, whether an audio track is loaded
  cfg,
  \* handleExport: where it is suspended, and its locals
  pc, wasPlaying, wasTickerRunning, pixiApp, originalMaxIdle, allFrames,
  batchIndex, useRawPixelPipeline, writeIndex,
  \* the promises of the batch in flight, and promises nobody awaits any more
  tasks, orphans,
  \* pending setTimeout callbacks of the finally block
  resetTimers,
  \* what the user was told: error toasts, success toasts, the produced video
  toasts, video,
  \* observation only: failures injected so far, phases entered, the state at
  \* invocation, the outcome of the session
  faults, trace, before, outcome,
  \* the arguments of the last calls of setExportMode made on the canvas handle
  modeCalls,
  \* the last decision of the transport estimate on free inputs
  estimate,
  \* observation only: the calls handleExport and the encoder's progress
  \* handler made to the interface during the current run, in program order
  \* (progress values, toasts, export mode)
  calls,
  \* the capture progress values computed on a free batch size and frame count
  report,
  \* invocations of handleExport the behaviour may still make
  sessionsLeft,
  \* the idle pixel buffers and canvases of the export (pixelBufferPool and
  \* tempCanvasPool of AppContent), and the pooled objects each task of the
  \* run refers to, in launch order
  pixelBufferPool, tempCanvasPool, holding,
  \* observation only: the last call made to a pool and whether it found
  \* (acquire) or kept (release) the object in the pool
  lastCall

vars == <<exporting, exportProgress, isPlaying, ffmpegLoaded, fs, execLog,
          render, maxIdle, cfg, pc, wasPlaying, wasTickerRunning, pixiApp,
          originalMaxIdle, allFrames, batchIndex, useRawPixelPipeline, writeIndex, tasks,
          orphans, resetTimers, toasts, video, faults, trace, before, outcome,
          modeCalls, estimate, calls, report, sessionsLeft,
          pixelBufferPool, tempCanvasPool, holding, lastCall>>

poolVars == <<pixelBufferPool, tempCanvasPool, holding, lastCall>>

-----------------------------------------------------------------------------
(* PixiCanvas: export mode *)

\* stage.filters is null or a filter list
FilterValues == {"null", "filters"}

\* An _original* slot is <<>> when the property is undefined, <<v>> otherwise.
Undefined == <<>>

\* The state setExportMode reads and writes.  layers: appRef.current and
\* effectsLayerRef.current are set; hazePresent / grainPresent: the refs are set.
RenderState(layers, filters, effectsVisible, hazePresent, hazeVisible, grainPresent, grainVisible) ==
  [layers |-> layers, filters |-> filters, effectsVisible |-> effectsVisible,
   hazePresent |-> hazePresent, hazeVisible |-> hazeVisible,
   grainPresent |-> grainPresent, grainVisible |-> grainVisible,
   cacheAsBitmap |-> FALSE, tickerStarted |-> layers,
   maxFPS |-> NormalMaxFPS, minFPS |-> NormalMinFPS,
   originalFilters |-> Undefined, originalEffectsVisible |-> Undefined,
   originalHazeVisible |-> Undefined, originalGrainVisible |-> Undefined,
   exportMode |-> FALSE]

\* setExportMode(true)
EnableExportMode(r) ==
  IF ~r.layers THEN [r EXCEPT !.exportMode = TRUE]
  ELSE [r EXCEPT
          !.exportMode = TRUE,
          !.originalFilters = <<r.filters>>,
          !.filters = "null",
          !.originalEffectsVisible = <<r.effectsVisible>>,
          !.effectsVisible = FALSE,
          !.originalHazeVisible =
              IF r.hazePresent THEN <<r.hazeVisible>> ELSE r.originalHazeVisible,
          !.hazeVisible = IF r.hazePresent THEN FALSE ELSE r.hazeVisible,
          !.originalGrainVisible =
              IF r.grainPresent THEN <<r.grainVisible>> ELSE r.originalGrainVisible,
          !.grainVisible = IF r.grainPresent THEN FALSE ELSE r.grainVisible,
          !.cacheAsBitmap = TRUE,
          !.tickerStarted = TRUE,
          !.maxFPS = ExportMaxFPS,
          !.minFPS = ExportMinFPS]

\* A restore that assigns the slot without testing it for undefined: the
\* property is then undefined, which a stage treats as no filters.
RestoreFiltersUnguarded(r) ==
  IF r.originalFilters # Undefined THEN r.originalFilters[1] ELSE "null"

\* stage.filters after `if (_originalFilters !== undefined) stage.filters = ...`
RestoreFilters(r) ==
  IF r.originalFilters # Undefined THEN r.originalFilters[1] ELSE r.filters

\* A restore that leaves the effects layer hidden.
RestoreEffectsVisibleDropped(r) == r.effectsVisible

\* effectsLayer.visible after the restore of _originalVisible
RestoreEffectsVisible(r) ==
  IF r.originalEffectsVisible # Undefined
  THEN r.originalEffectsVisible[1] ELSE r.effectsVisible

\* setExportMode(false)
DisableExportMode(r) ==
  IF ~r.layers THEN [r EXCEPT !.exportMode = FALSE]
  ELSE [r EXCEPT
          !.exportMode = FALSE,
          !.filters = RestoreFilters(r),
          !.originalFilters = Undefined,
          !.effectsVisible = RestoreEffectsVisible(r),
          !.originalEffectsVisible = Undefined,
          !.hazeVisible =
              IF r.hazePresent /\ r.originalHazeVisible # Undefined
              THEN r.originalHazeVisible[1] ELSE r.hazeVisible,
          !.originalHazeVisible =
              IF r.hazePresent THEN Undefined ELSE r.originalHazeVisible,
          !.grainVisible =
              IF r.grainPresent /\ r.originalGrainVisible # Undefined
              THEN r.originalGrainVisible[1] ELSE r.grainVisible,
          !.originalGrainVisible =
              IF r.grainPresent THEN Undefined ELSE r.originalGrainVisible,
          !.cacheAsBitmap = FALSE,
          !.tickerStarted = TRUE,
          !.maxFPS = NormalMaxFPS,
          !.minFPS = NormalMinFPS]

\* setExportMode(enabled)
setExportMode(enabled, r) ==
  IF enabled THEN EnableExportMode(r) ELSE DisableExportMode(r)

\* The render states of a live preview: a mounted application has its ticker
\* started (PixiCanvas.tsx:407, 1045), the ticker limits and the bitmap cache
\* are written by setExportMode only, and no _original* slot is set.
\* a sprite that is absent / present and hidden / present and shown
SpriteStates == { <<FALSE, FALSE>>, <<TRUE, FALSE>>, <<TRUE, TRUE>> }

PreviewStates ==
  { RenderState(TRUE, f, ev, haze[1], haze[2], grain[1], grain[2]) :
      f \in FilterValues, ev \in BOOLEAN,
      haze \in SpriteStates, grain \in SpriteStates }

\* The canvas is being (re)created: getCanvas() and getApp() return null.
NoAppState == RenderState(FALSE, "null", FALSE, FALSE, FALSE, FALSE, FALSE)

-----------------------------------------------------------------------------
(* handleExport: locals derived from the configuration *)

config == exportConfig(cfg.preset)
frameCount == cfg.frameCount
actualCanvasWidth == cfg.canvas.w
actualCanvasHeight == cfg.canvas.h
exportWidth == ExportDim(actualCanvasWidth, config)
exportHeight == ExportDim(actualCanvasHeight, config)
framePixelCount == FramePixelCount(exportWidth, exportHeight)

\* Math.min(config.frameCaptureSize, frameCount)
BatchSize(captureSize, n) == Min(captureSize, n)

batchSize == BatchSize(config.frameCaptureSize, frameCount)
batches == CeilDiv(frameCount, batchSize)

\* A batch start one frame early: each batch repeats the last frame of the
\* batch before it.
BatchStartFrameOverlapping(b) == IF b = 0 THEN 0 ELSE b * batchSize - 1

BatchStartFrame(b) == b * batchSize

\* A batch end that is not truncated at frameCount.
BatchEndFrameUntruncated(b) == BatchStartFrame(b) + batchSize

\* Math.min(batchStartFrame + batchSize, frameCount)
BatchEndFrame(b) == Min(BatchStartFrame(b) + batchSize, frameCount)

\* Math.floor in place of Math.round.
RoundShareFloor(part, whole, share) == (part * share) \div whole

\* Math.round(part / whole * share) for non-negative integers
RoundShare(part, whole, share) == (2 * part * share + whole) \div (2 * whole)

\* the progress reported after capture batch b: the capture is the first 30%
CaptureProgress(b) == RoundShare(BatchEndFrame(b), frameCount, CaptureShare)

\* `totalMemoryGB > 1.5`, with totalMemoryGB = framePixelCount * frameCount / 1024^3.
\* Every quantity is an integer and 1.5 * 1024^3 = RawLimitBytes, so the test is
\* fpc * n > RawLimitBytes; for fpc > 0 that is n > RawLimitBytes \div fpc,
\* the form used here because fpc * n does not fit TLC's integers.
EstimateExceeds(fpc, n) == n > RawLimitBytes \div fpc

-----------------------------------------------------------------------------
(* Frame tasks: the async closure pushed to batchPromises *)

\* what gl.readPixels / renderer.extract.pixels deliver: the canvas at its
\* actual resolution
SourcePixels(k) ==
  Buffer("rgba", actualCanvasWidth * actualCanvasHeight * BytesPerPixel, k)

\* downsamplePixels(..., exportWidth, exportHeight)
DownsampledPixels(k) == Buffer("rgba", framePixelCount, k)

\* the Uint8Array convertRGBAToPNG returns; a PNG's length depends on the
\* picture, the model only keeps it non-zero
PngOf(pixels) == Buffer("png", 1, pixels.frame)

NewTask(kind, k, name, pixels) ==
  [kind |-> kind, frameIndex |-> k, name |-> name, at |-> "start",
   pixels |-> pixels, frameData |-> EmptyBuffer]

Rejected(t) == [t EXCEPT !.at = "rejected"]
Fulfilled(t, data) == [t EXCEPT !.at = "fulfilled", !.frameData = data]
Pending(t) == t.at \notin {"fulfilled", "rejected"}

\* convertRGBAToPNG(pixels, exportWidth, exportHeight) up to its first await
\* (canvas.toBlob): empty pixel data throws; a size mismatch is only logged by
\* the function, and then new ImageData(data, width, height) throws because
\* the data length is not width * height * 4
ConvertStart(t, pixels) ==
  IF pixels.len = 0 THEN Rejected(t)
  ELSE IF pixels.len # framePixelCount THEN Rejected(t)
  ELSE [t EXCEPT !.at = "png", !.pixels = pixels]

\* `frameData = pixels` of the raw pipeline
RawFrameData(pixels) == pixels

\* from the final validation of a frame task to its return or next await
AfterPixels(t, pixels) ==
  IF pixels.len = 0 THEN Rejected(t)
  ELSE IF config.useRawPixels THEN Fulfilled(t, RawFrameData(pixels))
  ELSE ConvertStart(t, pixels)

\* failures of the rendering surface a frame task can meet
ExtractFaults == IF cfg.webgl THEN {"render", "readPixels"} ELSE {"render", "extract"}

\* from renderer.render to the return or next await of a frame task
Extract(t, fault) ==
  IF fault = "render" THEN Rejected(t)
  ELSE IF cfg.webgl
  THEN IF fault = "readPixels"
       THEN AfterPixels(t, SourcePixels(t.frameIndex))    \* PIXI fallback
       ELSE IF config.resNum < config.resDen
            THEN [t EXCEPT !.at = "downsample",
                           !.pixels = DownsampledPixels(t.frameIndex)]
            ELSE AfterPixels(t, SourcePixels(t.frameIndex))
  ELSE IF fault = "extract" THEN Rejected(t)
       ELSE AfterPixels(t, SourcePixels(t.frameIndex))

\* a frame task from its creation to its first await
StartFrameTask(k, fault) ==
  IF k % YieldEvery = 0
  THEN [NewTask("frame", k, 0, EmptyBuffer) EXCEPT !.at = "yield"]
  ELSE Extract(NewTask("frame", k, 0, EmptyBuffer), fault)

\* the write closure of the override and fallback loops, to its first await
StartConvertTask(frame) ==
  ConvertStart(NewTask("write", frame.frameIndex, frame.frameIndex + 1,
                       frame.frameData), frame.frameData)

\* ffmpeg.writeFile of PNG mode, called with the name of the array position
StartWriteTask(frame, position) ==
  [NewTask("write", frame.frameIndex, position, frame.frameData)
     EXCEPT !.at = "write", !.frameData = frame.frameData]

\* failures a suspended task can meet when it resumes
StepFaults(t) ==
  CASE t.at = "yield" -> ExtractFaults
    [] t.at = "png" -> {"toBlob"}
    [] t.at = "write" -> {"writeFile"}
    [] OTHER -> {}

\* a suspended task resumes and runs to its next await or to its end
StepTask(t, fault) ==
  CASE t.at = "yield" -> Extract(t, fault)
    [] t.at = "downsample" -> AfterPixels(t, t.pixels)
    [] t.at = "png" ->
         IF fault = "toBlob" THEN Rejected(t)
         ELSE IF t.kind = "frame" THEN Fulfilled(t, PngOf(t.pixels))
         ELSE [t EXCEPT !.at = "write", !.frameData = PngOf(t.pixels)]
    [] t.at = "write" ->
         IF fault = "writeFile" THEN Rejected(t) ELSE Fulfilled(t, t.frameData)
    [] OTHER -> t

\* the file system after that step
StepFiles(t, fault) ==
  IF t.at = "write" /\ fault = "none"
  THEN WriteFile(fs, FrameFile(t.name), t.frameData)
  ELSE fs

-----------------------------------------------------------------------------
(* The memory pools of AppContent: pixelBufferPool and tempCanvasPool *)

\* new Uint8Array(size): an object is told from the others by the place that
\* created it, `by`: the frame index of the task and the local it went to
PixelBuffer(size, by) == [size |-> size, by |-> by]

\* document.createElement('canvas') with its width and height set
TempCanvas(width, height, by) == [width |-> width, height |-> height, by |-> by]

\* Array.prototype.findIndex / find: the first position of a set of
\* positions, 0 when there is none
FirstOf(positions) ==
  IF positions = {} THEN 0
  ELSE CHOOSE i \in positions : \A j \in positions : i <= j

\* pool.splice(i, 1): the pool without its element i
Splice(pool, i) == SubSeq(pool, 1, i - 1) \o SubSeq(pool, i + 1, Len(pool))

\* An acquire that hands out an idle buffer and leaves it in the pool.
getPixelBufferKept(pool, size, by) ==
  LET existingBufferIndex == FirstOf({ i \in 1..Len(pool) : pool[i].size = size })
  IN  IF existingBufferIndex # 0
      THEN [buffer |-> pool[existingBufferIndex], pool |-> pool]
      ELSE [buffer |-> PixelBuffer(size, by), pool |-> pool]

\* getPixelBuffer(size): the buffer returned and the pool afterwards
getPixelBuffer(pool, size, by) ==
  LET existingBufferIndex == FirstOf({ i \in 1..Len(pool) : pool[i].size = size })
  IN  IF existingBufferIndex # 0
      THEN [buffer |-> pool[existingBufferIndex],
            pool |-> Splice(pool, existingBufferIndex)]
      ELSE [buffer |-> PixelBuffer(size, by), pool |-> pool]

\* A release that still pushes when the pool already holds its maximum.
releasePixelBufferLate(pool, buffer) ==
  IF Len(pool) <= PixelBufferPoolMax THEN Append(pool, buffer) ELSE pool

\* releasePixelBuffer(buffer): the pool afterwards
releasePixelBuffer(pool, buffer) ==
  IF Len(pool) < PixelBufferPoolMax THEN Append(pool, buffer) ELSE pool

\* getTempCanvas(width, height): the canvas returned and the pool afterwards
getTempCanvas(pool, width, height, by) ==
  LET existingCanvas ==
        FirstOf({ i \in 1..Len(pool) :
                    pool[i].width = width /\ pool[i].height = height })
  IN  IF existingCanvas # 0
      THEN [canvas |-> pool[existingCanvas], pool |-> Splice(pool, existingCanvas)]
      ELSE [canvas |-> TempCanvas(width, height, by), pool |-> pool]

\* releaseTempCanvas(canvas): the pool afterwards
releaseTempCanvas(pool, canvas) ==
  IF Len(pool) < TempCanvasPoolMax THEN Append(pool, canvas) ELSE pool

\* The pools as one task sees them while it runs: the two idle lists and the
\* pooled objects the task refers to
PoolView(buffers, canvases, h) ==
  [pixelBufferPool |-> buffers, tempCanvasPool |-> canvases,
   frameIndex |-> h.frameIndex, buffers |-> h.buffers, canvases |-> h.canvases]

\* what a task that has not run yet refers to
NoHolding(k) == [frameIndex |-> k, buffers |-> EmptyBag, canvases |-> EmptyBag]

\* what the task refers to when it suspends or ends
HoldingOf(v) ==
  [frameIndex |-> v.frameIndex, buffers |-> v.buffers, canvases |-> v.canvases]

\* const b = getPixelBuffer(size)
TakeBuffer(v, size, site) ==
  LET g == getPixelBuffer(v.pixelBufferPool, size, <<v.frameIndex, site>>)
  IN  [v EXCEPT !.pixelBufferPool = g.pool,
                !.buffers = @ (+) SetToBag({g.buffer})]

\* releasePixelBuffer(b)
GiveBuffer(v, b) ==
  [v EXCEPT !.pixelBufferPool = releasePixelBuffer(@, b),
            !.buffers = @ (-) SetToBag({b})]

\* const c = getTempCanvas(width, height)
TakeCanvas(v, width, height, site) ==
  LET g == getTempCanvas(v.tempCanvasPool, width, height, <<v.frameIndex, site>>)
  IN  [v EXCEPT !.tempCanvasPool = g.pool,
                !.canvases = @ (+) SetToBag({g.canvas})]

\* releaseTempCanvas(c)
GiveCanvas(v, c) ==
  [v EXCEPT !.tempCanvasPool = releaseTempCanvas(@, c),
            !.canvases = @ (-) SetToBag({c})]

\* the canvas the call of getTempCanvas(width, height) made from v returns
CanvasFor(v, width, height, site) ==
  getTempCanvas(v.tempCanvasPool, width, height, <<v.frameIndex, site>>).canvas

\* downsamplePixels: source and target canvas are acquired and both released
\* before the function returns its promise
DownsampleCanvases(v) ==
  LET sourceCanvas == CanvasFor(v, actualCanvasWidth, actualCanvasHeight, "sourceCanvas")
      s == TakeCanvas(v, actualCanvasWidth, actualCanvasHeight, "sourceCanvas")
      targetCanvas == CanvasFor(s, exportWidth, exportHeight, "targetCanvas")
      t == TakeCanvas(s, exportWidth, exportHeight, "targetCanvas")
  IN  GiveCanvas(GiveCanvas(t, sourceCanvas), targetCanvas)

\* convertRGBAToPNG up to its first await: the canvas is acquired before the
\* pixel data is validated
ConvertCanvas(v) == TakeCanvas(v, exportWidth, exportHeight, "tempCanvas")

\* the pools from the final validation of a frame task on (AfterPixels)
PoolAfterPixels(v, pixels) ==
  IF pixels.len = 0 THEN v
  ELSE IF config.useRawPixels THEN v
  ELSE ConvertCanvas(v)

\* actualCanvasWidth * actualCanvasHeight * 4
fullPixelCount == actualCanvasWidth * actualCanvasHeight * BytesPerPixel

\* the array renderer.extract.pixels returned in the catch of a failed GPU read
ExtractedPixels(v) == PixelBuffer(fullPixelCount, <<v.frameIndex, "pixels">>)

\* the pools from renderer.render of a frame task on (Extract)
PoolExtract(v, fault) ==
  IF fault = "render" THEN v
  ELSE IF cfg.webgl
  THEN LET full == TakeBuffer(v, fullPixelCount, "fullPixelBuffer")
       IN  IF fault = "readPixels"
           THEN PoolAfterPixels(
                  [full EXCEPT !.buffers = @ (+) SetToBag({ExtractedPixels(v)})],
                  SourcePixels(v.frameIndex))
           ELSE IF config.resNum < config.resDen
                THEN DownsampleCanvases(full)
                ELSE PoolAfterPixels(full, SourcePixels(v.frameIndex))
  ELSE IF fault = "extract" THEN v
       ELSE PoolAfterPixels(v, SourcePixels(v.frameIndex))

\* the buffer the local `pixels` of a frame task refers to
PixelsOf(v) ==
  IF BagIn(ExtractedPixels(v), v.buffers) THEN ExtractedPixels(v)
  ELSE CHOOSE b \in BagToSet(v.buffers) : TRUE

\* the pools when task t resumes and runs to its next await or to its end
\* (StepTask)
PoolStepTask(v, t, fault) ==
  CASE t.at = "yield" -> PoolExtract(v, fault)
    [] t.at = "downsample" ->
         PoolAfterPixels(GiveBuffer(v, CHOOSE b \in BagToSet(v.buffers) : TRUE),
                         t.pixels)
    [] t.at = "png" ->
         IF fault = "toBlob" THEN v
         ELSE LET c == GiveCanvas(v, CHOOSE c \in BagToSet(v.canvases) : TRUE)
              IN  IF t.kind = "frame" /\ cfg.webgl
                     /\ ~(config.resNum < config.resDen)
                  THEN GiveBuffer(c, PixelsOf(c))
                  ELSE c
    [] OTHER -> v

\* the pools when a task is created and runs to its first await
PoolStartTask(v, t0, fault) ==
  IF t0.kind = "write" THEN ConvertCanvas(v)
  ELSE IF t0.frameIndex % YieldEvery = 0 THEN v
  ELSE PoolExtract(v, fault)

-----------------------------------------------------------------------------
(* handleExport: the frame array *)

FrameData(t) ==
  [frameData |-> t.frameData, frameIndex |-> t.frameIndex,
   isRawPixels |-> config.useRawPixels]

\* The results of a batch in the reverse of the launch order.
BatchResultsReversed(ts) == [i \in 1..Len(ts) |-> FrameData(ts[Len(ts) + 1 - i])]

\* await Promise.all(batchPromises): the results in the order of the promises
BatchResults(ts) == [i \in 1..Len(ts) |-> FrameData(ts[i])]

RECURSIVE InsertByIndex(_, _)
InsertByIndex(sorted, f) ==
  IF sorted = <<>> THEN <<f>>
  ELSE IF f.frameIndex < Head(sorted).frameIndex THEN <<f>> \o sorted
  ELSE <<Head(sorted)>> \o InsertByIndex(Tail(sorted), f)

RECURSIVE SortedPrefix(_, _)
SortedPrefix(frames, n) ==
  IF n = 0 THEN <<>> ELSE InsertByIndex(SortedPrefix(frames, n - 1), frames[n])

\* allFrames.sort((a, b) => a.frameIndex - b.frameIndex), a stable sort
SortFrames(frames) == SortedPrefix(frames, Len(frames))

\* "Clear old frame data": positions clearStartFrame .. clearEndFrame - 1 of
\* the array get an empty payload when batch b is an even batch above 6
ClearOldFrames(frames, b) ==
  IF b % GcEvery = 0 /\ b > 0 /\ b > KeepBatches
  THEN LET clearStartFrame == (b - KeepBatches) * batchSize
           clearEndFrame == Min(clearStartFrame + batchSize, Len(frames))
       IN  [i \in 1..Len(frames) |->
              IF clearStartFrame <= i - 1 /\ i - 1 < clearEndFrame
              THEN [frames[i] EXCEPT !.frameData = EmptyBuffer]
              ELSE frames[i]]
  ELSE frames

\* allFrames.find(f => f.frameIndex === i): its position, 0 when there is none
RECURSIVE FindFrame(_, _, _)
FindFrame(frames, i, from) ==
  IF from > Len(frames) THEN 0
  ELSE IF frames[from].frameIndex = i THEN from
  ELSE FindFrame(frames, i, from + 1)

\* One frame-sized segment of raw_video.rgba: the frame whose bytes it starts
\* with, and whether it is exactly that frame's whole payload.
ZeroSegment == [frame |-> NoFrame, intact |-> FALSE]

\* rawVideoData.set(frameData, i * framePixelCount) on the segments: the
\* payload covers segment i and, when longer than a frame, the next ones
SetSegments(segs, i, data) ==
  [j \in 1..Len(segs) |->
     IF j - 1 = i THEN [frame |-> data.frame, intact |-> data.len = framePixelCount]
     ELSE IF j - 1 > i /\ (j - 1) * framePixelCount < i * framePixelCount + data.len
     THEN [frame |-> data.frame, intact |-> FALSE]
     ELSE segs[j]]

\* The chunk loop of the raw pipeline up to frame i (chunks only group the
\* progress reports).  thrown: a set ran past the end of the buffer
\* (RangeError), which ends the loop.
RECURSIVE ConcatFrames(_, _)
ConcatFrames(frames, i) ==
  IF i = 0 THEN [thrown |-> FALSE, segments |-> [j \in 1..frameCount |-> ZeroSegment]]
  ELSE LET sofar == ConcatFrames(frames, i - 1)
           pos == FindFrame(frames, i - 1, 1)
       IN  IF sofar.thrown \/ pos = 0 THEN sofar
           ELSE IF frames[pos].frameData.len = 0 THEN sofar
           ELSE IF (i - 1) * framePixelCount + frames[pos].frameData.len
                     > framePixelCount * frameCount
           THEN [sofar EXCEPT !.thrown = TRUE]
           ELSE [sofar EXCEPT
                   !.segments = SetSegments(@, i - 1, frames[pos].frameData)]

\* the Uint8Array written to raw_video.rgba
RawVideoData(frames) ==
  [kind |-> "rawvideo", len |-> framePixelCount * frameCount, frame |-> NoFrame,
   segments |-> ConcatFrames(frames, frameCount).segments]

-----------------------------------------------------------------------------
(* handleExport: the steps between its awaits *)

Snapshot == [render |-> render, isPlaying |-> isPlaying, maxIdle |-> maxIdle]

\* A batch awaited with Promise.allSettled: it resolves once no promise is pending.
AllSettled(ts) == \A i \in 1..Len(ts) : ts[i].at \in {"fulfilled", "rejected"}

\* A batch that is taken as complete as soon as one promise is fulfilled.
AnyFulfilled(ts) == \E i \in 1..Len(ts) : ts[i].at = "fulfilled"

\* Promise.all resolves / rejects
AllFulfilled(ts) == \A i \in 1..Len(ts) : ts[i].at = "fulfilled"
SomeRejected(ts) == \E i \in 1..Len(ts) : ts[i].at = "rejected"
PendingOf(ts) == { ts[i] : i \in { j \in 1..Len(ts) : Pending(ts[j]) } }

\* Encoder arguments that always declare an image sequence.
EncoderInputImageOnly(raw) ==
  [format |-> "image2", width |-> 0, height |-> 0,
   input |-> <<"frame%d.png">>, startNumber |-> 1]

\* the arguments of ffmpeg.exec that name the video input
EncoderInput(raw) ==
  IF raw THEN [format |-> "rawvideo", width |-> exportWidth, height |-> exportHeight,
               input |-> RawFile, startNumber |-> 0]
  ELSE [format |-> "image2", width |-> 0, height |-> 0,
        input |-> <<"frame%d.png">>, startNumber |-> 1]

\* The restore of the finally block without the call of setExportMode(false).
RestoreRenderSkipped(r, tickerWasRunning, app) == r

\* finally: setExportMode(false), then ticker.stop() unless it was running
RestoreRender(r, tickerWasRunning, app) ==
  LET restored == setExportMode(FALSE, r)
  IN  IF ~tickerWasRunning /\ app
      THEN [restored EXCEPT !.tickerStarted = FALSE] ELSE restored

\* one call handleExport makes to its surroundings
Call(op, arg) == [op |-> op, arg |-> arg]
\* setExportProgress(v)
Progress(v) == Call("setExportProgress", v)
\* setExportProgress(v) called by the handler of the encoder's 'progress' event
EncoderProgressCall(v) == Call("setExportProgress on progress event", v)
ProgressOps == {"setExportProgress", "setExportProgress on progress event"}
\* addToast({type: 'error', ...}) and the toast of a completed export
ToastError == Call("addToast error", 0)
ToastSuccess == Call("addToast success", 0)
\* renderer.textureGC.run(), made while textureGC.maxIdle has the value idle
TextureGcCall(idle) == Call("textureGC.run", idle)
\* pixiCanvasRef.current.setExportMode(enabled)
ExportModeCall(enabled) ==
  Call(IF enabled THEN "setExportMode(true)" ELSE "setExportMode(false)", 0)

\* the value of the last setExportProgress among the calls cs
RECURSIVE LastProgress(_, _)
LastProgress(cs, default) ==
  IF cs = <<>> THEN default
  ELSE IF Last(cs).op \in ProgressOps THEN Last(cs).arg
  ELSE LastProgress(SubSeq(cs, 1, Len(cs) - 1), default)

\* one stretch of handleExport made the calls cs, in that order, after the
\* calls `base` of the run
Did(base, cs) ==
  /\ calls' = base \o cs
  /\ exportProgress' = LastProgress(cs, exportProgress)

\* The finally block of handleExport, reached with the given outcome after
\* the phases and the calls `base` of the run and the calls cs of the same
\* stretch; the promises still pending are awaited by nobody from here on.
Finally(result, r, tickerWasRunning, app, playingWas, phases, base, cs) ==
  /\ Did(base, cs \o <<ExportModeCall(FALSE)>>)
  /\ render' = RestoreRender(r, tickerWasRunning, app)
  /\ isPlaying' = IF ~playingWas THEN FALSE ELSE isPlaying
  /\ resetTimers' = resetTimers + 1
  /\ orphans' = orphans \cup PendingOf(tasks)
  /\ tasks' = <<>>
  /\ pc' = "ended"
  /\ outcome' = result
  /\ trace' = phases \o <<"CleaningUp", result>>

\* The calls cs of the stretch that threw, then the catch block, then the
\* finally block.
AbortAfter(cs) ==
  /\ toasts' = [toasts EXCEPT !.error = @ + 1]
  /\ Finally("Failed", render, wasTickerRunning, pixiApp, wasPlaying,
             trace, calls, cs \o <<ToastError>>)

\* The catch block, then the finally block.
Abort == AbortAfter(<<>>)

\* the finally block of the capture loop does not restore textureGC.maxIdle
CaptureFinallyKept == maxIdle' = maxIdle

\* The finally block of the capture loop, after its textureGC.run():
\* renderer.textureGC.maxIdle = originalMaxIdle
CaptureFinally == maxIdle' = originalMaxIdle

\* an external call fails: the failures of a run are recorded in order
Fault(kind) == Len(faults) < MaxFaults /\ faults' = Append(faults, kind)
NoFault == faults' = faults

\* the frame tasks of batch b, each run to its first await; slot is the
\* task (0: none) whose rendering surface fails with `fault` on that stretch
LaunchFrames(b, slot, fault) ==
  [i \in 1..(BatchEndFrame(b) - BatchStartFrame(b)) |->
     StartFrameTask(BatchStartFrame(b) + i - 1, IF i = slot THEN fault ELSE "none")]

LaunchBatch(b) ==
  \E slot \in 0..batchSize, fault \in ExtractFaults \cup {"none"} :
    /\ (slot = 0) <=> (fault = "none")
    /\ slot > 0 => /\ slot <= BatchEndFrame(b) - BatchStartFrame(b)
                   /\ (BatchStartFrame(b) + slot - 1) % YieldEvery # 0
                   /\ Fault(fault)
    /\ slot = 0 => NoFault
    /\ tasks' = LaunchFrames(b, slot, fault)

\* the write closures of frames[i+1 .. i+writeBatchSize] (0-based slice i..)
WriteBatchEnd(frames, i) == Min(i + config.writeBatchSize, Len(frames))

LaunchConversions(frames, i) ==
  [j \in 1..(WriteBatchEnd(frames, i) - i) |-> StartConvertTask(frames[i + j])]

LaunchWrites(frames, i) ==
  [j \in 1..(WriteBatchEnd(frames, i) - i) |-> StartWriteTask(frames[i + j], i + j)]

\* from the end of the write stage to the next await, after the calls cs of
\* the same stretch: the raw branch sets the progress to 50, then the audio
\* track is fetched or the encoder is run
AfterWrite(raw, cs) ==
  /\ Did(calls, cs \o (IF config.useRawPixels THEN <<Progress(50)>> ELSE <<>>))
  /\ IF cfg.audio
     THEN pc' = "audio" /\ UNCHANGED <<execLog, trace>>
     ELSE /\ pc' = "exec"
          /\ execLog' = Append(execLog, EncoderInput(raw))
          /\ trace' = Append(trace, "Encoding")

\* "Fall back to PNG on memory error"
StartFallback(frames) ==
  /\ useRawPixelPipeline' = FALSE
  /\ writeIndex' = 0
  /\ tasks' = LaunchConversions(frames, 0)
  /\ pc' = "write_fallback"

\* the concatenation loop works in chunks of up to 100 frames and reports the
\* progress after each chunk
ChunkSize == Min(MaxChunkFrames, frameCount)

chunks == CeilDiv(frameCount, ChunkSize)

ChunkEnd(c) == Min(c * ChunkSize, frameCount)

\* the progress calls of the concatenation loop: one per chunk copied before
\* the loop ended or threw
ConcatProgress(frames) ==
  LET done == {c \in 1..chunks : ~ConcatFrames(frames, ChunkEnd(c)).thrown}
  IN  [c \in 1..Cardinality(done) |->
         Progress(30 + RoundShare(ChunkEnd(c), frameCount, 20))]

\* From the sorted frame array to the first await of the write stage, after
\* the calls cs of the same stretch.
StartWriteStage(frames, cs) ==
  /\ trace' = Append(trace, "Writing")
  /\ IF Len(frames) > 0 /\ frames[1].isRawPixels
     THEN IF EstimateExceeds(framePixelCount, frameCount)
          THEN /\ useRawPixelPipeline' = FALSE
               /\ writeIndex' = 0
               /\ tasks' = LaunchConversions(frames, 0)
               /\ pc' = "write_override"
               /\ NoFault
               /\ Did(calls, cs)
          ELSE \/ /\ ~ConcatFrames(frames, frameCount).thrown
                  /\ NoFault
                  /\ useRawPixelPipeline' = TRUE
                  /\ writeIndex' = 0
                  /\ tasks' = <<>>
                  /\ pc' = "write_raw"
                  /\ Did(calls, cs \o ConcatProgress(frames))
               \/ /\ ConcatFrames(frames, frameCount).thrown
                  /\ NoFault
                  /\ StartFallback(frames)
                  /\ Did(calls, cs \o ConcatProgress(frames))
               \/ /\ Fault("alloc")         \* new Uint8Array(...) throws
                  /\ StartFallback(frames)
                  /\ Did(calls, cs)
     ELSE /\ useRawPixelPipeline' = FALSE
          /\ writeIndex' = 0
          /\ tasks' = LaunchWrites(frames, 0)
          /\ pc' = "write_png"
          /\ NoFault
          /\ Did(calls, cs)

-----------------------------------------------------------------------------
(* Actions *)

\* handleExport is invoked (the guard `exporting || !pixiCanvasRef.current`
\* passes); with the engine not loaded it suspends at ffmpeg.load()
HandleExportLoad ==
  /\ pc \in {"idle", "ended"} /\ ~exporting /\ ~ffmpegLoaded
  /\ sessionsLeft > 0
  /\ sessionsLeft' = sessionsLeft - 1
  /\ exporting' = TRUE
  /\ Did(<<>>, <<Progress(0)>>)
  /\ wasPlaying' = FALSE /\ wasTickerRunning' = FALSE /\ pixiApp' = FALSE
  /\ UNCHANGED originalMaxIdle
  /\ before' = Snapshot
  /\ outcome' = "none"
  /\ trace' = <<>>
  /\ pc' = "load"
  /\ UNCHANGED <<isPlaying, ffmpegLoaded, fs, execLog, render, maxIdle, cfg,
                 allFrames, batchIndex, useRawPixelPipeline, writeIndex, tasks,
                 orphans, resetTimers, toasts, video, faults, modeCalls,
                 estimate, report>>
  /\ UNCHANGED poolVars

\* getCanvas() returns null: error toast, setExporting(false), return -- and
\* the finally block runs with the initial values of the locals; phases, base
\* and cs are the phases and calls of the run and of the stretch so far
CanvasMissing(phases, base, cs) ==
  /\ ~render.layers
  /\ toasts' = [toasts EXCEPT !.error = @ + 1]
  /\ exporting' = FALSE
  /\ wasPlaying' = FALSE /\ wasTickerRunning' = FALSE /\ pixiApp' = FALSE
  /\ UNCHANGED originalMaxIdle
  /\ Finally("Failed", render, FALSE, FALSE, FALSE,
             phases, base, cs \o <<ToastError>>)
  /\ UNCHANGED <<fs, execLog, maxIdle, cfg, allFrames, batchIndex,
                 useRawPixelPipeline, writeIndex, video, faults, modeCalls,
                 estimate, report>>

\* from getCanvas() to the await of the first batch: export mode, play state,
\* ticker, texture GC, and the tasks of batch 0
BeginCapture(base, cs) ==
  /\ render.layers
  /\ LET r == setExportMode(TRUE, render)
     IN  /\ wasTickerRunning' = r.tickerStarted
         /\ render' = [r EXCEPT !.tickerStarted = TRUE]
  /\ wasPlaying' = isPlaying
  /\ isPlaying' = TRUE
  /\ pixiApp' = TRUE
  /\ originalMaxIdle' = maxIdle
  /\ maxIdle' = MaxSafeInteger
  /\ Did(base, cs \o <<ExportModeCall(TRUE)>>)
  /\ allFrames' = <<>>
  /\ batchIndex' = 0
  /\ LaunchBatch(0)
  /\ pc' = "capture"
  /\ outcome' = "none"
  /\ trace' = <<"Capturing">>
  /\ UNCHANGED <<fs, execLog, cfg, useRawPixelPipeline, writeIndex, orphans,
                 resetTimers, toasts, video, modeCalls, estimate, report>>

\* handleExport is invoked with the engine loaded: no await before the capture
HandleExport ==
  /\ pc \in {"idle", "ended"} /\ ~exporting /\ ffmpegLoaded
  /\ sessionsLeft > 0
  /\ sessionsLeft' = sessionsLeft - 1
  /\ before' = Snapshot
  /\ \/ CanvasMissing(<<>>, <<>>, <<Progress(0)>>)
     \/ BeginCapture(<<>>, <<Progress(0)>>) /\ exporting' = TRUE
  /\ UNCHANGED ffmpegLoaded
  /\ UNCHANGED poolVars

\* ffmpeg.load() resolves
LoadDone ==
  /\ pc = "load"
  /\ ffmpegLoaded' = TRUE
  /\ \/ CanvasMissing(trace, calls, <<>>)
     \/ BeginCapture(calls, <<>>) /\ UNCHANGED exporting
  /\ UNCHANGED <<before, sessionsLeft>>
  /\ UNCHANGED poolVars

\* ffmpeg.load() rejects: catch and finally, before any local was assigned
LoadFail ==
  /\ pc = "load"
  /\ Fault("load")
  /\ Abort
  /\ UNCHANGED <<exporting, exportProgress, ffmpegLoaded, fs, execLog, maxIdle,
                 cfg, wasPlaying, wasTickerRunning, pixiApp, originalMaxIdle, allFrames,
                 batchIndex, useRawPixelPipeline, writeIndex, video, before,
                 modeCalls, estimate, report, sessionsLeft>>
  /\ UNCHANGED poolVars

\* a suspended task of the batch in flight resumes
TaskStep ==
  /\ pc \in {"capture", "write_override", "write_fallback", "write_png"}
  /\ \E i \in 1..Len(tasks) :
       /\ Pending(tasks[i])
       /\ \E fault \in StepFaults(tasks[i]) \cup {"none"} :
            /\ IF fault = "none" THEN NoFault ELSE Fault(fault)
            /\ tasks' = [tasks EXCEPT ![i] = StepTask(tasks[i], fault)]
            /\ fs' = StepFiles(tasks[i], fault)
  /\ UNCHANGED <<exporting, exportProgress, isPlaying, ffmpegLoaded, execLog,
                 render, maxIdle, cfg, pc, wasPlaying, wasTickerRunning, pixiApp,
                 originalMaxIdle, allFrames, batchIndex, useRawPixelPipeline, writeIndex, orphans,
                 resetTimers, toasts, video, trace, before, outcome,
                 modeCalls, estimate, report,
                 sessionsLeft, calls>>
  /\ UNCHANGED poolVars

\* a task whose Promise.all has already rejected resumes
OrphanStep ==
  /\ \E t \in orphans :
       \E fault \in StepFaults(t) \cup {"none"} :
         /\ IF fault = "none" THEN NoFault ELSE Fault(fault)
         /\ orphans' = (orphans \ {t})
                         \cup (IF Pending(StepTask(t, fault))
                               THEN {StepTask(t, fault)} ELSE {})
         /\ fs' = StepFiles(t, fault)
  /\ UNCHANGED <<exporting, exportProgress, isPlaying, ffmpegLoaded, execLog,
                 render, maxIdle, cfg, pc, wasPlaying, wasTickerRunning, pixiApp,
                 originalMaxIdle, allFrames, batchIndex, useRawPixelPipeline, writeIndex, tasks,
                 resetTimers, toasts, video, trace, before, outcome,
                 modeCalls, estimate, report,
                 sessionsLeft, calls>>
  /\ UNCHANGED poolVars

\* Promise.all(batchPromises) resolves: results appended, progress, texture GC
\* and clearing of old payloads; then the next batch is launched, or the
\* capture loop ends (inner finally, sort) and the write stage begins
BatchDone ==
  /\ pc = "capture"
  /\ AllFulfilled(tasks)
  /\ LET collected == ClearOldFrames(allFrames \o BatchResults(tasks), batchIndex)
         progress ==
           <<Progress(CaptureProgress(batchIndex))>>
             \o (IF batchIndex % GcEvery = 0 /\ batchIndex > 0
                 THEN <<TextureGcCall(maxIdle)>> ELSE <<>>)
     IN  IF batchIndex + 1 < batches
         THEN /\ allFrames' = collected
              /\ Did(calls, progress)
              /\ batchIndex' = batchIndex + 1
              /\ LaunchBatch(batchIndex + 1)
              /\ UNCHANGED <<maxIdle, pc, useRawPixelPipeline, writeIndex, trace>>
         ELSE /\ allFrames' = SortFrames(collected)
              /\ CaptureFinally
              /\ StartWriteStage(SortFrames(collected),
                                 progress \o <<TextureGcCall(maxIdle)>>)
              /\ UNCHANGED batchIndex
  /\ UNCHANGED <<exporting, isPlaying, ffmpegLoaded, fs, execLog, render, cfg,
                 wasPlaying, wasTickerRunning, pixiApp, originalMaxIdle, orphans, resetTimers,
                 toasts, video, before, outcome, modeCalls, estimate, report, sessionsLeft>>
  /\ UNCHANGED poolVars

\* Promise.all(batchPromises) rejects: inner finally, catch, finally
BatchFail ==
  /\ pc = "capture"
  /\ SomeRejected(tasks)
  /\ CaptureFinally
  /\ AbortAfter(<<TextureGcCall(maxIdle)>>)
  /\ UNCHANGED <<exporting, exportProgress, ffmpegLoaded, fs, execLog, cfg,
                 wasPlaying, wasTickerRunning, pixiApp, originalMaxIdle, allFrames, batchIndex,
                 useRawPixelPipeline, writeIndex, video, faults, before,
                 modeCalls, estimate, report, sessionsLeft>>
  /\ UNCHANGED poolVars

\* Promise.all(writePromises) of a PNG batch resolves: progress, then the
\* next batch, or the end of the write stage
WriteBatchDone ==
  /\ pc \in {"write_override", "write_fallback", "write_png"}
  /\ AllFulfilled(tasks)
  /\ LET batchEnd == WriteBatchEnd(allFrames, writeIndex)
         progress ==
           CASE pc = "write_override" ->
                  <<Progress(30 + RoundShare(batchEnd, Len(allFrames), 40))>>
             [] pc = "write_png" ->
                  <<Progress(30 + RoundShare(batchEnd, frameCount, 20))>>
             [] OTHER -> <<>>
         next == writeIndex + config.writeBatchSize
     IN  IF next < Len(allFrames)
         THEN /\ writeIndex' = next
              /\ Did(calls, progress)
              /\ tasks' = IF pc = "write_png" THEN LaunchWrites(allFrames, next)
                          ELSE LaunchConversions(allFrames, next)
              /\ UNCHANGED <<pc, execLog, trace>>
         ELSE /\ tasks' = <<>>
              /\ UNCHANGED writeIndex
              /\ AfterWrite(useRawPixelPipeline, progress)
  /\ UNCHANGED <<exporting, isPlaying, ffmpegLoaded, fs, render, maxIdle, cfg,
                 wasPlaying, wasTickerRunning, pixiApp, originalMaxIdle,
                 allFrames, batchIndex, useRawPixelPipeline, orphans,
                 resetTimers, toasts, video, faults, before, outcome,
                 modeCalls, estimate, report, sessionsLeft>>
  /\ UNCHANGED poolVars

\* Promise.all(writePromises) rejects: catch, finally
WriteBatchFail ==
  /\ pc \in {"write_override", "write_fallback", "write_png"}
  /\ SomeRejected(tasks)
  /\ Abort
  /\ UNCHANGED <<exporting, exportProgress, ffmpegLoaded, fs, execLog, maxIdle,
                 cfg, wasPlaying, wasTickerRunning, pixiApp, originalMaxIdle,
                 allFrames, batchIndex, useRawPixelPipeline, writeIndex, video,
                 faults, before, modeCalls, estimate, report, sessionsLeft>>
  /\ UNCHANGED poolVars

\* ffmpeg.writeFile('raw_video.rgba', rawVideoData) resolves
RawWritten ==
  /\ pc = "write_raw"
  /\ NoFault
  /\ fs' = WriteFile(fs, RawFile, RawVideoData(allFrames))
  /\ AfterWrite(TRUE, <<>>)
  /\ UNCHANGED <<exporting, isPlaying, ffmpegLoaded, render, maxIdle, cfg,
                 wasPlaying, wasTickerRunning, pixiApp, originalMaxIdle,
                 allFrames, batchIndex, useRawPixelPipeline, writeIndex, tasks,
                 orphans, resetTimers, toasts, video, before, outcome,
                 modeCalls, estimate, report, sessionsLeft>>
  /\ UNCHANGED poolVars

\* ffmpeg.writeFile('raw_video.rgba', ...) rejects: caught as memoryError,
\* the PNG fallback starts
RawWriteFail ==
  /\ pc = "write_raw"
  /\ Fault("rawWrite")
  /\ StartFallback(allFrames)
  /\ UNCHANGED <<exporting, exportProgress, isPlaying, ffmpegLoaded, fs, execLog,
                 render, maxIdle, cfg, wasPlaying, wasTickerRunning, pixiApp,
                 originalMaxIdle, allFrames, batchIndex, orphans, resetTimers,
                 toasts, video, trace, before, outcome, modeCalls, estimate, report,
                 sessionsLeft, calls>>
  /\ UNCHANGED poolVars

\* fetchFile(audio) and ffmpeg.writeFile('audio.mp3', ...) resolve; the
\* encoder is started
AudioStaged ==
  /\ pc = "audio"
  /\ NoFault
  /\ fs' = WriteFile(fs, AudioFile, Buffer("mp3", 1, NoFrame))
  /\ pc' = "exec"
  /\ execLog' = Append(execLog, EncoderInput(useRawPixelPipeline))
  /\ trace' = Append(trace, "Encoding")
  /\ UNCHANGED <<exporting, exportProgress, isPlaying, ffmpegLoaded, render,
                 maxIdle, cfg, wasPlaying, wasTickerRunning, pixiApp,
                 originalMaxIdle, allFrames, batchIndex, useRawPixelPipeline,
                 writeIndex, tasks, orphans, resetTimers, toasts, video, before,
                 outcome, modeCalls, estimate, report,
                 sessionsLeft, calls>>
  /\ UNCHANGED poolVars

\* ffmpeg.exec(ffmpegArgs) resolves: output.mp4 exists
ExecDone ==
  /\ pc = "exec"
  /\ NoFault
  /\ fs' = WriteFile(fs, OutputFile, Buffer("mp4", 1, NoFrame))
  /\ pc' = "read"
  /\ UNCHANGED <<exporting, exportProgress, isPlaying, ffmpegLoaded, execLog,
                 render, maxIdle, cfg, wasPlaying, wasTickerRunning, pixiApp,
                 originalMaxIdle, allFrames, batchIndex, useRawPixelPipeline,
                 writeIndex, tasks, orphans, resetTimers, toasts, video, trace,
                 before, outcome, modeCalls, estimate, report,
                 sessionsLeft, calls>>
  /\ UNCHANGED poolVars

\* Math.round(progress * 100) for the progress values 0, 0.5 and 1 of the
\* encoder's 'progress' event
ProgressPercents == {0, 50, 100}

\* the encoder emits a 'progress' event while ffmpeg.exec runs: the handler
\* registered at mount sets the export progress
EncoderProgress ==
  /\ pc = "exec"
  /\ Cardinality({ i \in 1..Len(calls) :
                     calls[i].op = "setExportProgress on progress event" })
       < MaxProgressEvents
  /\ \E v \in ProgressPercents : Did(calls, <<EncoderProgressCall(v)>>)
  /\ UNCHANGED <<exporting, isPlaying, ffmpegLoaded, fs, execLog, render,
                 maxIdle, cfg, pc, wasPlaying, wasTickerRunning, pixiApp,
                 originalMaxIdle, allFrames, batchIndex, useRawPixelPipeline,
                 writeIndex, tasks, orphans, resetTimers, toasts, video, faults,
                 trace, before, outcome, modeCalls, estimate, report,
                 sessionsLeft>>
  /\ UNCHANGED poolVars

\* the audio staging, ffmpeg.exec or ffmpeg.readFile rejects: catch, finally
EncodeFail ==
  /\ pc \in {"audio", "exec", "read"}
  /\ Fault(pc)
  /\ Abort
  /\ UNCHANGED <<exporting, exportProgress, ffmpegLoaded, fs, execLog, maxIdle,
                 cfg, wasPlaying, wasTickerRunning, pixiApp, originalMaxIdle,
                 allFrames, batchIndex, useRawPixelPipeline, writeIndex, video,
                 before, modeCalls, estimate, report, sessionsLeft>>
  /\ UNCHANGED poolVars

\* PNG frames are deleted in batches of 20 after a successful encode
CleanupBatchSize == 20

\* the names deleted by the batch that starts at frame number i
CleanupBatch(i) ==
  { FrameFile(j) : j \in i..(Min(i + CleanupBatchSize, frameCount + 1) - 1) }

\* ffmpeg.readFile('output.mp4') resolves: the video is handed to the user,
\* then the staged video input is deleted
ReadDone ==
  /\ pc = "read"
  /\ NoFault
  /\ video' = TRUE
  /\ pc' = "delete_frames"
  /\ writeIndex' = 1
  /\ UNCHANGED <<exporting, exportProgress, isPlaying, ffmpegLoaded, fs, execLog,
                 render, maxIdle, cfg, wasPlaying, wasTickerRunning, pixiApp,
                 originalMaxIdle, allFrames, batchIndex, useRawPixelPipeline,
                 tasks, orphans, resetTimers, toasts, trace, before, outcome,
                 modeCalls, estimate, report,
                 sessionsLeft, calls>>
  /\ UNCHANGED poolVars

\* deleteFile('raw_video.rgba'), or one batch of deleteFile(`frame${j}.png`),
\* resolves; deleteFile rejects for a file that does not exist
FramesDeleted ==
  /\ pc = "delete_frames"
  /\ LET names == IF useRawPixelPipeline THEN {RawFile} ELSE CleanupBatch(writeIndex)
         next == writeIndex + CleanupBatchSize
     IN  /\ fs' = DeleteFiles(fs, names)
         /\ IF ~(names \subseteq DOMAIN fs)
            THEN /\ Abort
                 /\ UNCHANGED <<exportProgress, writeIndex>>
            ELSE /\ IF ~useRawPixelPipeline /\ next <= frameCount
                    THEN pc' = "delete_frames" /\ writeIndex' = next
                    ELSE /\ pc' = IF cfg.audio THEN "delete_audio" ELSE "delete_output"
                         /\ UNCHANGED writeIndex
                 /\ UNCHANGED <<exportProgress, isPlaying, render, tasks, orphans,
                                resetTimers, toasts, trace, outcome, calls>>
  /\ UNCHANGED <<exporting, ffmpegLoaded, execLog, maxIdle, cfg, wasPlaying,
                 wasTickerRunning, pixiApp, originalMaxIdle, allFrames,
                 batchIndex, useRawPixelPipeline, video, faults, before,
                 modeCalls, estimate, report, sessionsLeft>>
  /\ UNCHANGED poolVars

\* deleteFile('audio.mp3') resolves
AudioDeleted ==
  /\ pc = "delete_audio"
  /\ fs' = DeleteFiles(fs, {AudioFile})
  /\ pc' = "delete_output"
  /\ UNCHANGED <<exporting, exportProgress, isPlaying, ffmpegLoaded, execLog,
                 render, maxIdle, cfg, wasPlaying, wasTickerRunning, pixiApp,
                 originalMaxIdle, allFrames, batchIndex, useRawPixelPipeline,
                 writeIndex, tasks, orphans, resetTimers, toasts, video, faults,
                 trace, before, outcome, modeCalls, estimate, report,
                 sessionsLeft, calls>>
  /\ UNCHANGED poolVars

\* deleteFile('output.mp4') resolves: progress 100, success toast, finally
OutputDeleted ==
  /\ pc = "delete_output"
  /\ fs' = DeleteFiles(fs, {OutputFile})
  /\ toasts' = [toasts EXCEPT !.success = @ + 1]
  /\ Finally("Done", render, wasTickerRunning, pixiApp, wasPlaying,
             trace, calls, <<Progress(100), ToastSuccess>>)
  /\ UNCHANGED <<exporting, ffmpegLoaded, execLog, maxIdle, cfg, wasPlaying,
                 wasTickerRunning, pixiApp, originalMaxIdle, allFrames,
                 batchIndex, useRawPixelPipeline, writeIndex, video, faults,
                 before, modeCalls, estimate, report, sessionsLeft>>
  /\ UNCHANGED poolVars

\* the setTimeout(..., 2000) of the finally block fires
ResetTimer ==
  /\ resetTimers > 0
  /\ resetTimers' = resetTimers - 1
  /\ exporting' = FALSE
  /\ exportProgress' = 0
  /\ UNCHANGED <<isPlaying, ffmpegLoaded, fs, execLog, render, maxIdle, cfg, pc,
                 wasPlaying, wasTickerRunning, pixiApp, originalMaxIdle,
                 allFrames, batchIndex, useRawPixelPipeline, writeIndex, tasks,
                 orphans, toasts, video, faults, trace, before, outcome,
                 modeCalls, estimate, calls, report, sessionsLeft>>
  /\ UNCHANGED poolVars

-----------------------------------------------------------------------------
(* Specifications *)

Configs ==
  [preset : Presets, frameCount : 1..MaxFrameCount, canvas : Canvases,
   webgl : BOOLEAN, audio : BOOLEAN]

\* no capture progress computed yet
NoReport == [captureSize |-> 0, frames |-> 0, values |-> <<>>]

\* the state of a mounted AppContent with no export in progress
Idle ==
  /\ exporting = FALSE /\ exportProgress = 0
  /\ fs = NoFiles /\ execLog = <<>>
  /\ maxIdle = DefaultMaxIdle
  /\ pc = "idle"
  /\ wasPlaying = FALSE /\ wasTickerRunning = FALSE /\ pixiApp = FALSE
  /\ originalMaxIdle = DefaultMaxIdle
  /\ allFrames = <<>> /\ batchIndex = 0
  /\ useRawPixelPipeline = FALSE /\ writeIndex = 0
  /\ tasks = <<>> /\ orphans = {}
  /\ resetTimers = 0
  /\ toasts = [error |-> 0, success |-> 0] /\ video = FALSE
  /\ faults = <<>> /\ trace = <<>> /\ outcome = "none"
  /\ modeCalls = <<>>
  /\ estimate = [preset |-> "none", width |-> 0, height |-> 0, frames |-> 0,
                 raw |-> FALSE]
  /\ calls = <<>>
  /\ report = NoReport
  /\ pixelBufferPool = <<>> /\ tempCanvasPool = <<>> /\ holding = <<>>
  /\ lastCall = [op |-> "none", pooled |-> FALSE]

\* Sessions of every length from one live preview (and from a canvas that
\* is being recreated), playing, as AppContent is mounted.
Init ==
  /\ Idle
  /\ isPlaying = TRUE
  /\ ffmpegLoaded \in BOOLEAN
  /\ render \in { RenderState(TRUE, "filters", TRUE, TRUE, TRUE, TRUE, FALSE),
                  NoAppState }
  /\ cfg \in Configs
  /\ before = Snapshot
  /\ sessionsLeft = 1

Next ==
  \/ HandleExportLoad
  \/ HandleExport
  \/ LoadDone
  \/ LoadFail
  \/ TaskStep
  \/ OrphanStep
  \/ BatchDone
  \/ BatchFail
  \/ WriteBatchDone
  \/ WriteBatchFail
  \/ RawWritten
  \/ RawWriteFail
  \/ AudioStaged
  \/ ExecDone
  \/ EncoderProgress
  \/ EncodeFail
  \/ ReadDone
  \/ FramesDeleted
  \/ AudioDeleted
  \/ OutputDeleted
  \/ ResetTimer

Spec == Init /\ [][Next]_vars

\* Short sessions from every live preview, playing or paused.
ShortConfigs ==
  [preset : Presets, frameCount : 1..ShortFrameCount, canvas : Canvases,
   webgl : {TRUE}, audio : BOOLEAN]

InitRender ==
  /\ Idle
  /\ isPlaying \in BOOLEAN
  /\ ffmpegLoaded \in BOOLEAN
  /\ render \in PreviewStates \cup {NoAppState}
  /\ cfg \in ShortConfigs
  /\ before = Snapshot
  /\ sessionsLeft = 1

SpecRender == InitRender /\ [][Next]_vars

\* setExportMode called on the canvas handle, in any order, from any preview.
CallSetExportMode ==
  /\ \E enabled \in BOOLEAN :
       /\ render' = setExportMode(enabled, render)
       /\ modeCalls' = IF Len(modeCalls) < ModeHistory
                       THEN Append(modeCalls, enabled)
                       ELSE Append(Tail(modeCalls), enabled)
  /\ UNCHANGED <<exporting, exportProgress, isPlaying, ffmpegLoaded, fs, execLog,
                 maxIdle, cfg, pc, wasPlaying, wasTickerRunning, pixiApp,
                 originalMaxIdle, allFrames, batchIndex, useRawPixelPipeline,
                 writeIndex, tasks, orphans, resetTimers, toasts, video, faults,
                 trace, before, outcome, estimate, report, sessionsLeft, calls>>
  /\ UNCHANGED poolVars

InitMode ==
  /\ Idle
  /\ isPlaying = TRUE
  /\ ffmpegLoaded = FALSE
  /\ render \in PreviewStates \cup {NoAppState}
  /\ cfg \in { c \in ShortConfigs : c.frameCount = 1 /\ c.preset = "balanced"
                                    /\ c.canvas.w = 1080 /\ ~c.audio }
  /\ before = Snapshot
  /\ sessionsLeft = 1

SpecMode == InitMode /\ [][CallSetExportMode]_vars

\* The transport estimate of the write stage on free inputs: which pipeline
\* handleExport takes for a preset, a canvas and a frame count.
SelectRaw(preset, canvas, n) ==
  /\ exportConfig(preset).useRawPixels
  /\ ~EstimateExceeds(FramePixelCount(ExportDim(canvas.w, exportConfig(preset)),
                                      ExportDim(canvas.h, exportConfig(preset))), n)

\* canvases of the estimate: those of the sessions and 1440 x 2560, which the
\* fast preset exports at 1080 x 1920
EstimateCanvases == Canvases \cup { [w |-> 1440, h |-> 2560] }

ChooseStrategy ==
  /\ estimate.preset = "none"
  /\ \E preset \in Presets, canvas \in EstimateCanvases, n \in 1..MaxEstimateFrames :
       estimate' = [preset |-> preset,
                    width |-> ExportDim(canvas.w, exportConfig(preset)),
                    height |-> ExportDim(canvas.h, exportConfig(preset)),
                    frames |-> n,
                    raw |-> SelectRaw(preset, canvas, n)]
  /\ UNCHANGED <<exporting, exportProgress, isPlaying, ffmpegLoaded, fs, execLog,
                 render, maxIdle, cfg, pc, wasPlaying, wasTickerRunning, pixiApp,
                 originalMaxIdle, allFrames, batchIndex, useRawPixelPipeline,
                 writeIndex, tasks, orphans, resetTimers, toasts, video, faults,
                 trace, before, outcome, modeCalls, report, sessionsLeft, calls>>
  /\ UNCHANGED poolVars

InitSelect == InitMode /\ render = NoAppState

SpecSelect == InitSelect /\ [][ChooseStrategy]_vars

\* The batch loop of the capture on free inputs, the frame tasks left out:
\* the batch bounds and the progress set after each batch, for the capture
\* sizes of the three presets and every frame count up to MaxProgressFrames.
CaptureSizes == {30, 20, 10}

\* frameCount and the preset are fixed before the loop
ReportStart ==
  /\ report = NoReport
  /\ \E size \in CaptureSizes, n \in 1..MaxProgressFrames :
       report' = [captureSize |-> size, frames |-> n, values |-> <<>>]
  /\ UNCHANGED <<exporting, exportProgress, isPlaying, ffmpegLoaded, fs, execLog,
                 render, maxIdle, cfg, pc, wasPlaying, wasTickerRunning, pixiApp,
                 originalMaxIdle, allFrames, batchIndex, useRawPixelPipeline,
                 writeIndex, tasks, orphans, resetTimers, toasts, video, faults,
                 trace, before, outcome, modeCalls, estimate, sessionsLeft, calls>>
  /\ UNCHANGED poolVars

\* one iteration of the batch loop: the progress after batch Len(values)
ReportBatch ==
  /\ report.frames > 0
  /\ LET size == BatchSize(report.captureSize, report.frames)
         b == Len(report.values)
         batchStartFrame == b * size
         batchEndFrame == Min(batchStartFrame + size, report.frames)
     IN  /\ b < CeilDiv(report.frames, size)
         /\ report' = [report EXCEPT !.values =
               Append(@, RoundShare(batchEndFrame, report.frames, CaptureShare))]
  /\ UNCHANGED <<exporting, exportProgress, isPlaying, ffmpegLoaded, fs, execLog,
                 render, maxIdle, cfg, pc, wasPlaying, wasTickerRunning, pixiApp,
                 originalMaxIdle, allFrames, batchIndex, useRawPixelPipeline,
                 writeIndex, tasks, orphans, resetTimers, toasts, video, faults,
                 trace, before, outcome, modeCalls, estimate, sessionsLeft, calls>>
  /\ UNCHANGED poolVars

NextProgress == ReportStart \/ ReportBatch

\* Several invocations of handleExport, one after the other, on the one
\* encoder of the page, whose file system outlives a session.

\* the user changes duration, quality or audio between two exports
ChangeSettings ==
  /\ pc = "ended"
  /\ sessionsLeft > 0
  /\ \E c \in ShortConfigs : c # cfg /\ cfg' = c
  /\ UNCHANGED <<exporting, exportProgress, isPlaying, ffmpegLoaded, fs, execLog,
                 render, maxIdle, pc, wasPlaying, wasTickerRunning, pixiApp,
                 originalMaxIdle, allFrames, batchIndex, useRawPixelPipeline,
                 writeIndex, tasks, orphans, resetTimers, toasts, video, faults,
                 trace, before, outcome, modeCalls, estimate, report,
                 sessionsLeft, calls>>
  /\ UNCHANGED poolVars

\* the PIXI application finishes its initialisation: canvas, layers and a
\* started ticker exist from here on
Mount ==
  /\ render = NoAppState
  /\ render' = RenderState(TRUE, "filters", TRUE, TRUE, TRUE, TRUE, FALSE)
  /\ UNCHANGED <<exporting, exportProgress, isPlaying, ffmpegLoaded, fs, execLog,
                 maxIdle, cfg, pc, wasPlaying, wasTickerRunning, pixiApp,
                 originalMaxIdle, allFrames, batchIndex, useRawPixelPipeline,
                 writeIndex, tasks, orphans, resetTimers, toasts, video, faults,
                 trace, before, outcome, modeCalls, estimate, report,
                 sessionsLeft, calls>>
  /\ UNCHANGED poolVars

InitSessions ==
  /\ Idle
  /\ isPlaying = TRUE
  /\ ffmpegLoaded \in BOOLEAN
  /\ render \in { RenderState(TRUE, "filters", TRUE, TRUE, TRUE, TRUE, FALSE),
                  NoAppState }
  /\ cfg \in ShortConfigs
  /\ before = Snapshot
  /\ sessionsLeft = MaxSessions

NextSessions == Next \/ ChangeSettings \/ Mount

SpecSessions == InitSessions /\ [][NextSessions]_vars

SpecProgress == InitSelect /\ [][NextProgress]_vars

-----------------------------------------------------------------------------
(* The pools during a capture and a conversion to PNG *)

\* frame counts of the sessions whose pool traffic is followed
MaxPoolFrames == 5

\* the pools and what every task of the run refers to
Pools ==
  [pixelBufferPool |-> pixelBufferPool, tempCanvasPool |-> tempCanvasPool,
   holding |-> holding]

SetPools(p) ==
  /\ pixelBufferPool' = p.pixelBufferPool
  /\ tempCanvasPool' = p.tempCanvasPool
  /\ holding' = p.holding

\* The pools after the tasks ts were created one after the other, each run
\* to its first await; `slot` is the task (0: none) that meets `fault`.
RECURSIVE Launched(_, _, _, _)
Launched(p, ts, slot, fault) ==
  IF ts = <<>> THEN p
  ELSE LET v == PoolStartTask(
                  PoolView(p.pixelBufferPool, p.tempCanvasPool,
                           NoHolding(Head(ts).frameIndex)),
                  Head(ts), IF slot = 1 THEN fault ELSE "none")
       IN  Launched([pixelBufferPool |-> v.pixelBufferPool,
                     tempCanvasPool |-> v.tempCanvasPool,
                     holding |-> Append(p.holding, HoldingOf(v))],
                    Tail(ts), slot - 1, fault)

\* the tasks of batch b are created (LaunchBatch), with their pool calls
PoolLaunchBatch(b) ==
  \E slot \in 0..batchSize, fault \in ExtractFaults \cup {"none"} :
    /\ (slot = 0) <=> (fault = "none")
    /\ slot > 0 => /\ slot <= BatchEndFrame(b) - BatchStartFrame(b)
                   /\ (BatchStartFrame(b) + slot - 1) % YieldEvery # 0
                   /\ Fault(fault)
    /\ slot = 0 => NoFault
    /\ tasks' = LaunchFrames(b, slot, fault)
    /\ SetPools(Launched(Pools,
                         [i \in 1..(BatchEndFrame(b) - BatchStartFrame(b)) |->
                            NewTask("frame", BatchStartFrame(b) + i - 1, 0, EmptyBuffer)],
                         slot, fault))

\* handleExport from its invocation to the await of the first batch
PoolCapture ==
  /\ pc = "idle"
  /\ pc' = "capture"
  /\ trace' = <<"Capturing">>
  /\ allFrames' = <<>>
  /\ batchIndex' = 0
  /\ PoolLaunchBatch(0)
  /\ UNCHANGED <<exporting, exportProgress, isPlaying, ffmpegLoaded, fs, execLog,
                 render, maxIdle, cfg, wasPlaying, wasTickerRunning, pixiApp,
                 originalMaxIdle, useRawPixelPipeline, writeIndex, orphans,
                 resetTimers, toasts, video, before, outcome, modeCalls,
                 estimate, calls, report, sessionsLeft, lastCall>>

\* a suspended task resumes (TaskStep, OrphanStep): whether or not another
\* task of the batch has rejected meanwhile
PoolTaskStep ==
  /\ \E i \in 1..Len(tasks) :
       /\ Pending(tasks[i])
       /\ \E fault \in StepFaults(tasks[i]) \cup {"none"} :
            /\ IF fault = "none" THEN NoFault ELSE Fault(fault)
            /\ tasks' = [tasks EXCEPT ![i] = StepTask(tasks[i], fault)]
            /\ fs' = StepFiles(tasks[i], fault)
            /\ LET h == Len(holding) - Len(tasks) + i
                   v == PoolStepTask(PoolView(pixelBufferPool, tempCanvasPool,
                                              holding[h]),
                                     tasks[i], fault)
               IN  SetPools([pixelBufferPool |-> v.pixelBufferPool,
                             tempCanvasPool |-> v.tempCanvasPool,
                             holding |-> [holding EXCEPT ![h] = HoldingOf(v)]])
  /\ UNCHANGED <<exporting, exportProgress, isPlaying, ffmpegLoaded, execLog,
                 render, maxIdle, cfg, pc, wasPlaying, wasTickerRunning, pixiApp,
                 originalMaxIdle, allFrames, batchIndex, useRawPixelPipeline,
                 writeIndex, orphans, resetTimers, toasts, video, trace, before,
                 outcome, modeCalls, estimate, calls, report, sessionsLeft,
                 lastCall>>

\* Promise.all of a capture batch resolves (BatchDone): the next batch, or
\* the write stage with the conversion closures of its first batch
PoolBatchDone ==
  /\ pc = "capture"
  /\ AllFulfilled(tasks)
  /\ LET collected == ClearOldFrames(allFrames \o BatchResults(tasks), batchIndex)
     IN  IF batchIndex + 1 < batches
         THEN /\ allFrames' = collected
              /\ batchIndex' = batchIndex + 1
              /\ PoolLaunchBatch(batchIndex + 1)
              /\ UNCHANGED <<pc, useRawPixelPipeline, writeIndex, trace, calls,
                             exportProgress>>
         ELSE /\ allFrames' = SortFrames(collected)
              /\ StartWriteStage(SortFrames(collected), <<>>)
              /\ SetPools(IF pc' \in {"write_override", "write_fallback"}
                          THEN Launched(Pools, tasks', 0, "none")
                          ELSE Pools)
              /\ UNCHANGED batchIndex
  /\ UNCHANGED <<exporting, isPlaying, ffmpegLoaded, fs, execLog, render, maxIdle,
                 cfg, wasPlaying, wasTickerRunning, pixiApp, originalMaxIdle,
                 orphans, resetTimers, toasts, video, before, outcome, modeCalls,
                 estimate, report, sessionsLeft, lastCall>>

\* ffmpeg.writeFile of the raw blob rejects (RawWriteFail): the fallback
\* converts every frame
PoolRawWriteFail ==
  /\ pc = "write_raw"
  /\ Fault("rawWrite")
  /\ StartFallback(allFrames)
  /\ SetPools(Launched(Pools, tasks', 0, "none"))
  /\ UNCHANGED <<exporting, exportProgress, isPlaying, ffmpegLoaded, fs, execLog,
                 render, maxIdle, cfg, wasPlaying, wasTickerRunning, pixiApp,
                 originalMaxIdle, allFrames, batchIndex, orphans, resetTimers,
                 toasts, video, trace, before, outcome, modeCalls, estimate,
                 calls, report, sessionsLeft, lastCall>>

\* Promise.all of a batch of conversion closures resolves (WriteBatchDone)
PoolWriteBatchDone ==
  /\ pc \in {"write_override", "write_fallback"}
  /\ AllFulfilled(tasks)
  /\ NoFault
  /\ LET next == writeIndex + config.writeBatchSize
     IN  IF next < Len(allFrames)
         THEN /\ writeIndex' = next
              /\ tasks' = LaunchConversions(allFrames, next)
              /\ SetPools(Launched(Pools, tasks', 0, "none"))
              /\ UNCHANGED pc
         ELSE /\ tasks' = <<>>
              /\ pc' = "exec"
              /\ UNCHANGED <<writeIndex, pixelBufferPool, tempCanvasPool, holding>>
  /\ UNCHANGED <<exporting, exportProgress, isPlaying, ffmpegLoaded, fs, execLog,
                 render, maxIdle, cfg, wasPlaying, wasTickerRunning, pixiApp,
                 originalMaxIdle, allFrames, batchIndex, useRawPixelPipeline,
                 orphans, resetTimers, toasts, video, trace, before, outcome,
                 modeCalls, estimate, calls, report, sessionsLeft, lastCall>>

PoolConfigs ==
  { c \in Configs : c.frameCount <= MaxPoolFrames /\ ~c.audio }

InitPool ==
  /\ Idle
  /\ isPlaying = TRUE
  /\ ffmpegLoaded = TRUE
  /\ render = RenderState(TRUE, "filters", TRUE, TRUE, TRUE, TRUE, FALSE)
  /\ cfg \in PoolConfigs
  /\ before = Snapshot
  /\ sessionsLeft = 1

NextPool ==
  \/ PoolCapture
  \/ PoolTaskStep
  \/ PoolBatchDone
  \/ PoolRawWriteFail
  \/ PoolWriteBatchDone

SpecPool == InitPool /\ [][NextPool]_vars

-----------------------------------------------------------------------------
(* The pools under any sequence of calls *)

\* the most buffers and canvases the caller keeps at a time
MaxHeldBuffers == 11
MaxHeldCanvases == 6

\* what the one caller refers to
Caller == PoolView(pixelBufferPool, tempCanvasPool, holding[1])

\* the result of a call: the pools and what the caller refers to
Called(v, op, pooled) ==
  /\ SetPools([pixelBufferPool |-> v.pixelBufferPool,
               tempCanvasPool |-> v.tempCanvasPool,
               holding |-> <<HoldingOf(v)>>])
  /\ lastCall' = [op |-> op, pooled |-> pooled]

sessionVars ==
  <<exporting, exportProgress, isPlaying, ffmpegLoaded, fs, execLog, render,
    maxIdle, cfg, pc, wasPlaying, wasTickerRunning, pixiApp, originalMaxIdle,
    allFrames, batchIndex, useRawPixelPipeline, writeIndex, tasks, orphans,
    resetTimers, toasts, video, faults, trace, before, outcome, modeCalls,
    estimate, calls, report, sessionsLeft>>

\* getPixelBuffer is called by frame tasks that read the GPU directly
CallGetPixelBuffer ==
  /\ cfg.webgl
  /\ BagCardinality(holding[1].buffers) < MaxHeldBuffers
  /\ LET v == TakeBuffer(Caller, fullPixelCount, "caller")
     IN  Called(v, "getPixelBuffer", v.pixelBufferPool # pixelBufferPool)
  /\ UNCHANGED sessionVars

\* releasePixelBuffer is called with a buffer the caller acquired
CallReleasePixelBuffer ==
  /\ \E b \in BagToSet(holding[1].buffers) :
       LET v == GiveBuffer(Caller, b)
       IN  Called(v, "releasePixelBuffer", v.pixelBufferPool # pixelBufferPool)
  /\ UNCHANGED sessionVars

\* getTempCanvas is called with the size of the canvas (downsamplePixels) or
\* with the export size (downsamplePixels, convertRGBAToPNG)
CallGetTempCanvas ==
  /\ BagCardinality(holding[1].canvases) < MaxHeldCanvases
  /\ \E d \in { <<actualCanvasWidth, actualCanvasHeight>>,
                <<exportWidth, exportHeight>> } :
       LET v == TakeCanvas(Caller, d[1], d[2], "caller")
       IN  Called(v, "getTempCanvas", v.tempCanvasPool # tempCanvasPool)
  /\ UNCHANGED sessionVars

\* releaseTempCanvas is called with a canvas the caller acquired
CallReleaseTempCanvas ==
  /\ \E c \in BagToSet(holding[1].canvases) :
       LET v == GiveCanvas(Caller, c)
       IN  Called(v, "releaseTempCanvas", v.tempCanvasPool # tempCanvasPool)
  /\ UNCHANGED sessionVars

InitPoolCalls ==
  /\ exporting = FALSE /\ exportProgress = 0
  /\ fs = NoFiles /\ execLog = <<>>
  /\ maxIdle = DefaultMaxIdle
  /\ pc = "idle"
  /\ wasPlaying = FALSE /\ wasTickerRunning = FALSE /\ pixiApp = FALSE
  /\ originalMaxIdle = DefaultMaxIdle
  /\ allFrames = <<>> /\ batchIndex = 0
  /\ useRawPixelPipeline = FALSE /\ writeIndex = 0
  /\ tasks = <<>> /\ orphans = {}
  /\ resetTimers = 0
  /\ toasts = [error |-> 0, success |-> 0] /\ video = FALSE
  /\ faults = <<>> /\ trace = <<>> /\ outcome = "none"
  /\ modeCalls = <<>>
  /\ estimate = [preset |-> "none", width |-> 0, height |-> 0, frames |-> 0,
                 raw |-> FALSE]
  /\ calls = <<>>
  /\ report = NoReport
  /\ isPlaying = TRUE
  /\ ffmpegLoaded = TRUE
  /\ render = RenderState(TRUE, "filters", TRUE, TRUE, TRUE, TRUE, FALSE)
  /\ cfg \in { c \in Configs : /\ c.frameCount = 1 /\ ~c.audio
                               /\ c.canvas = [w |-> 1080, h |-> 1920]
                               /\ c.preset = "fast" => ~c.webgl }
  /\ before = Snapshot
  /\ sessionsLeft = 1
  /\ pixelBufferPool = <<>> /\ tempCanvasPool = <<>>
  /\ holding = <<NoHolding(NoFrame)>>
  /\ lastCall = [op |-> "none", pooled |-> FALSE]

NextPoolCalls ==
  \/ CallGetPixelBuffer
  \/ CallReleasePixelBuffer
  \/ CallGetTempCanvas
  \/ CallReleaseTempCanvas

SpecPoolCalls == InitPoolCalls /\ [][NextPoolCalls]_vars

-----------------------------------------------------------------------------
(* Properties *)

\* setExportMode(true) was called in this run of handleExport
ExportModeEntered == Len(trace) >= 1 /\ trace[1] = "Capturing"

\* the capture loop completed without error: the write stage was entered
CaptureComplete == Len(trace) >= 2 /\ trace[2] = "Writing"

SessionEnded == pc = "ended"

\* C1: when the capture loop completes without error, the sorted frame list
\* has exactly frameCount records and record i (from 0) has frame index i --
\* no gap, no duplicate, ascending -- whatever the order in which the tasks
\* of a batch settled.
C1_FrameListComplete ==
  CaptureComplete =>
    /\ Len(allFrames) = frameCount
    /\ \A i \in 1..Len(allFrames) : allFrames[i].frameIndex = i - 1

\* a session of several batches, the last one shorter than the others, whose
\* tasks suspend and settle one by one, has entered the write stage
C1_Witness ==
  /\ CaptureComplete
  /\ cfg.preset = "fast"
  /\ batches >= 3
  /\ frameCount % batchSize # 0
  /\ Len(allFrames) = frameCount

\* C2: at the start of the write stage, and from then on, every frame record
\* holds the non-empty payload captured for its own frame, and what is staged
\* for frame i (segment i of raw_video.rgba, the file frame{i+1}.png) is the
\* content of frame i, never an empty or zero-filled placeholder.
C2_PayloadsHeldAtWrite ==
  CaptureComplete =>
    /\ \A i \in 1..Len(allFrames) :
         /\ allFrames[i].frameData.len > 0
         /\ allFrames[i].frameData.frame = allFrames[i].frameIndex
    /\ RawFile \in DOMAIN fs =>
         \A i \in 1..frameCount : fs[RawFile].segments[i].frame = i - 1
    /\ \A i \in 1..frameCount :
         FrameFile(i) \in DOMAIN fs =>
           /\ fs[FrameFile(i)].len > 0
           /\ fs[FrameFile(i)].frame = i - 1

\* failures the pipeline recovers from by itself: the direct GPU read (PIXI
\* extraction takes over) and the raw attempt (PNG fallback takes over)
RecoveredFaults == {"readPixels", "alloc", "rawWrite"}

SurfacedFault == \E i \in 1..Len(faults) : faults[i] \notin RecoveredFaults

\* C3: a run that enabled export mode keeps it enabled while it is active and
\* has disabled it when it ends, on every outcome; a run ends through cleanup;
\* a failure that reaches the catch block ends the run as Failed with one
\* error toast, and no phase is entered a second time.
C3_RestoreUnconditional ==
  /\ (ExportModeEntered /\ ~SessionEnded) => render.exportMode
  /\ SessionEnded =>
       /\ ~render.exportMode
       /\ Len(trace) >= 2
       /\ trace[Len(trace) - 1] = "CleaningUp"
       /\ Last(trace) = outcome
       /\ outcome \in {"Done", "Failed"}
  /\ (SessionEnded /\ SurfacedFault) => (outcome = "Failed" /\ toasts.error = 1)
  /\ toasts.error > 0 => (SessionEnded /\ outcome = "Failed")
  /\ Cardinality({ i \in 1..Len(trace) : trace[i] = "Capturing" }) <= 1
  /\ Cardinality({ i \in 1..Len(trace) : trace[i] = "Writing" }) <= 1
  /\ Len(execLog) <= 1

\* a run that enabled export mode on a filtered stage and whose encoder threw
\* has ended
C3_Witness ==
  /\ SessionEnded
  /\ ExportModeEntered
  /\ faults = <<"exec">>
  /\ outcome = "Failed"
  /\ before.render.filters = "filters"
  /\ ~render.exportMode

\* the run failed in the capture phase
CaptureFailed == trace = <<"Capturing", "CleaningUp", "Failed">>

\* from a state in which a frame task of the batch in flight has rejected,
\* handleExport takes no step but the one to Failed: meanwhile only the other
\* tasks of the batch run on
C4_Step ==
  (pc = "capture" /\ SomeRejected(tasks)) =>
     \/ /\ pc' = "capture"
        /\ batchIndex' = batchIndex
        /\ allFrames' = allFrames
        /\ Len(tasks') = Len(tasks)
        /\ SomeRejected(tasks')
     \/ /\ pc' = "ended"
        /\ outcome' = "Failed"
        /\ batchIndex' = batchIndex

\* once failed in the capture phase: nothing staged, encoder never invoked,
\* no video, one error toast, render state as before the run
C4_State ==
  CaptureFailed =>
    /\ SessionEnded /\ outcome = "Failed"
    /\ fs = NoFiles
    /\ execLog = <<>>
    /\ ~video
    /\ toasts = [error |-> 1, success |-> 0]
    /\ render = before.render

\* C4: if the extraction of one frame fails, the session goes directly to
\* Failed: no later batch is started, nothing is written to the staging area,
\* the encoder is never invoked, no video is produced, and the render state is
\* the one from before the run.
C4_ExtractionFailureFails == []C4_State /\ [][C4_Step]_vars

\* the extraction of a frame of a middle batch failed and the run has ended,
\* with batches left that were never started
C4_Witness ==
  /\ CaptureFailed
  /\ Len(faults) = 1 /\ faults[1] \in {"render", "extract"}
  /\ batchIndex >= 1
  /\ batchIndex + 1 < batches
  /\ Len(allFrames) = batchIndex * batchSize
  /\ render.filters = "filters"

\* C5: when a session has ended, on Failed as well as on Done, no file it
\* staged (raw_video.rgba, frameN.png, audio.mp3, output.mp4) remains.
C5_StagingEmptyAtEnd == SessionEnded => DOMAIN fs = {}

FallbackTaken ==
  /\ CaptureComplete
  /\ config.useRawPixels
  /\ ~EstimateExceeds(framePixelCount, frameCount)
  /\ ~useRawPixelPipeline

\* C7: if building or staging the raw blob throws and nothing else fails, the
\* session stages every frame as a PNG, invokes the encoder once with
\* image-sequence input, and ends in Done without an error toast.
C7_FallbackEndsDone ==
  (FallbackTaken /\ SessionEnded /\ ~SurfacedFault) =>
    /\ outcome = "Done"
    /\ toasts.error = 0
    /\ execLog = <<EncoderInput(FALSE)>>

\* C8: with raw transport preferred and an export size of 1080 x 1920, the
\* selector chooses raw transport for every frame count up to 194 and
\* compressed-image transport for every frame count from 195 on.
C8_CompressedFrom195 ==
  (/\ estimate.preset # "none"
   /\ exportConfig(estimate.preset).useRawPixels
   /\ estimate.width = 1080 /\ estimate.height = 1920)
    => (estimate.raw <=> estimate.frames < 195)

\* the estimate was taken for 195 frames of 1080 x 1920 with raw preferred
C8_Witness ==
  /\ estimate.preset = "balanced"
  /\ estimate.width = 1080 /\ estimate.height = 1920
  /\ estimate.frames = 195
  /\ ~estimate.raw

\* C8 as stated: compressed-image transport for every frame count from 189 on
C8_CompressedFrom189 ==
  (/\ estimate.preset # "none"
   /\ exportConfig(estimate.preset).useRawPixels
   /\ estimate.width = 1080 /\ estimate.height = 1920
   /\ estimate.frames >= 189)
    => ~estimate.raw

\* C9: a call setExportMode(false) that directly follows a call
\* setExportMode(false) leaves the whole render state as the first call left it.
C9_RestoreIdempotent ==
  [][(/\ modeCalls # <<>> /\ Last(modeCalls) = FALSE
      /\ modeCalls' # <<>> /\ Last(modeCalls') = FALSE)
       => render' = render]_vars

\* export mode was entered on a filtered preview with haze shown and then
\* left twice in a row
C9_Witness ==
  /\ modeCalls = <<TRUE, FALSE, FALSE>>
  /\ render.layers
  /\ render.filters = "filters"
  /\ render.hazeVisible
  /\ ~render.exportMode

\* the payloads a session holds in raw form: those of the frame records and
\* those the frame tasks of the batch in flight have returned
RawPayloads ==
  { allFrames[i].frameData : i \in { j \in 1..Len(allFrames) : allFrames[j].isRawPixels } }
    \cup (IF pc = "capture" /\ config.useRawPixels
          THEN { tasks[i].frameData : i \in { j \in 1..Len(tasks) : tasks[j].at = "fulfilled" } }
          ELSE {})

\* C10: every raw payload that was extracted has length
\* exportWidth * exportHeight * 4, whichever extraction path produced it; at
\* resolution 0.75 of a 1080 x 1920 canvas that is 810 * 1440 * 4 bytes.
C10_RawPayloadLength ==
  \A data \in RawPayloads :
    data.len > 0 =>
      /\ data.len = exportWidth * exportHeight * BytesPerPixel
      /\ (cfg.preset = "fast" /\ cfg.canvas = [w |-> 1080, h |-> 1920])
           => data.len = 810 * 1440 * 4

\* C11: after each capture batch the progress is batchEndFrame / frameCount
\* scaled into the capture share of 30 and rounded to the nearest integer
\* (halves up); 24 frames in batches of 20 report 25 and then 30; and the
\* progress after the last batch is exactly 30 for every frame count.
C11_CaptureProgress ==
  LET n == report.frames
      size == IF report.captureSize < n THEN report.captureSize ELSE n
      count == Len(report.values)
      end(b) == IF b * size < n THEN b * size ELSE n
      complete == n > 0 /\ count * size >= n
  IN  /\ \A b \in 1..count :
           /\ 2 * report.values[b] * n <= 2 * end(b) * 30 + n
           /\ 2 * end(b) * 30 + n < 2 * report.values[b] * n + 2 * n
      /\ complete => report.values[count] = 30
      /\ complete /\ n = 24 /\ size = 20 => report.values = <<25, 30>>

\* the loop has run over 24 frames in batches of 20
C11_Witness ==
  report = [captureSize |-> 20, frames |-> 24, values |-> <<25, 30>>]

\* the index of the last capture batch whose results were appended
LastBatchDone == CeilDiv(Len(allFrames), batchSize) - 1

\* C12: after batch b has completed, b > 6, every frame of a batch with index
\* <= b - 6 has an empty payload, and its record still carries its frame
\* index.
C12_OldPayloadsReleased ==
  LastBatchDone > KeepBatches =>
    \A i \in 1..Len(allFrames) :
      allFrames[i].frameIndex \div batchSize <= LastBatchDone - KeepBatches =>
        /\ allFrames[i].frameData.len = 0
        /\ allFrames[i].frameIndex \in 0..(frameCount - 1)

\* the session prefers raw transport and its estimate exceeds the limit
OverLimit == config.useRawPixels /\ EstimateExceeds(framePixelCount, frameCount)

\* every frame of the session is staged as its own image file
AllImagesStaged == \A i \in 1..frameCount : FrameFile(i) \in DOMAIN fs

\* C13: with raw transport preferred and the estimate above 1.5 GiB no raw
\* blob is ever staged and every frame is staged as an image before the
\* encoder runs; with the estimate at or below the limit the raw blob is
\* attempted (built, or abandoned for the fallback only after it threw, which
\* is checked when the first batch of the fallback has been launched); with
\* a preset that prefers images raw transport is never used; and when the
\* encoder is invoked its declared input format is the one that was staged.
C13_StrategyFixed ==
  /\ OverLimit =>
       /\ RawFile \notin DOMAIN fs
       /\ pc \notin {"write_raw", "write_fallback", "write_png"}
       /\ ~useRawPixelPipeline
       /\ Len(execLog) > 0 => execLog[1].format = "image2"
  /\ (config.useRawPixels /\ ~OverLimit /\ CaptureComplete) =>
       /\ pc \notin {"write_override", "write_png"}
       /\ pc = "write_raw" => useRawPixelPipeline
       /\ (pc = "write_fallback" /\ writeIndex = 0
             /\ tasks = LaunchConversions(allFrames, 0)) =>
            \/ \E i \in 1..Len(faults) : faults[i] \in {"alloc", "rawWrite"}
            \/ ConcatFrames(allFrames, frameCount).thrown
  /\ ~config.useRawPixels =>
       /\ RawFile \notin DOMAIN fs
       /\ pc \notin {"write_raw", "write_fallback", "write_override"}
       /\ ~useRawPixelPipeline
       /\ Len(execLog) > 0 => execLog[1].format = "image2"
  /\ pc = "exec" =>
       /\ Len(execLog) = 1
       /\ execLog[1].format = "rawvideo" =>
            (RawFile \in DOMAIN fs /\ execLog[1].input = RawFile
             /\ \A i \in 1..frameCount : FrameFile(i) \notin DOMAIN fs)
       /\ execLog[1].format = "image2" =>
            (AllImagesStaged /\ RawFile \notin DOMAIN fs)
       /\ execLog[1].format \in {"rawvideo", "image2"}

\* the encoder runs on the raw blob of a session below the limit
C13_Witness ==
  /\ pc = "exec"
  /\ config.useRawPixels /\ ~OverLimit
  /\ execLog[1].format = "rawvideo"
  /\ RawFile \in DOMAIN fs
  /\ frameCount > 1

\* the position of a phase in Capturing, Writing, Encoding, CleaningUp, and
\* of the final status after them
PhaseRank(p) ==
  CASE p = "Capturing" -> 1 [] p = "Writing" -> 2 [] p = "Encoding" -> 3
    [] p = "CleaningUp" -> 4 [] OTHER -> 5

\* the encoder is invoked at most once, after a file was written for every
\* frame (the raw blob, or frame{i}.png for each i) and after audio.mp3 was
\* written when there is an audio track; phases are entered in order
EncoderAfterWrites ==
  /\ Len(execLog) <= 1
  /\ Len(execLog) = 1 <=> (\E i \in 1..Len(trace) : trace[i] = "Encoding")
  /\ pc = "exec" =>
       /\ RawFile \in DOMAIN fs \/ AllImagesStaged
       /\ cfg.audio => AudioFile \in DOMAIN fs
       /\ pc \notin {"write_override", "write_raw", "write_fallback", "write_png"}
       /\ tasks = <<>>
  /\ \A i, j \in 1..Len(trace) : i < j => PhaseRank(trace[i]) < PhaseRank(trace[j])

CallsOf(c) == { i \in 1..Len(calls) : calls[i] = c }

\* a run that ended as Failed raised exactly one error toast
FailureSurfacedOnce ==
  (SessionEnded /\ outcome = "Failed") => Cardinality(CallsOf(ToastError)) = 1

\* C15: when a session has failed the failure was surfaced exactly once, and
\* only after the cleanup -- the restoration of the render state by
\* setExportMode(false) -- had run.
C15_FailureAfterCleanup ==
  /\ FailureSurfacedOnce
  /\ \A i \in CallsOf(ToastError) :
       \E j \in CallsOf(ExportModeCall(FALSE)) : j < i

\* the extraction tasks that have not settled, awaited or not
FramesInFlight ==
  Cardinality({ i \in 1..Len(tasks) : tasks[i].kind = "frame" /\ Pending(tasks[i]) })
  + Cardinality({ t \in orphans : t.kind = "frame" })

\* during the capture the tasks are those of the batch in flight, one per
\* frame of that batch, and the records of every earlier batch are appended
C16_State ==
  /\ FramesInFlight <= batchSize
  /\ pc = "capture" =>
       /\ Len(tasks) = BatchEndFrame(batchIndex) - BatchStartFrame(batchIndex)
       /\ Len(tasks) <= batchSize
       /\ \A i \in 1..Len(tasks) :
            /\ tasks[i].kind = "frame"
            /\ tasks[i].frameIndex = batchIndex * batchSize + i - 1
       /\ Len(allFrames) = batchIndex * batchSize
       /\ \A k \in 0..(batchIndex * batchSize - 1) :
            \E i \in 1..Len(allFrames) : allFrames[i].frameIndex = k

\* the next batch is launched only from a state in which every task of the
\* batch in flight is fulfilled, in the step that appends their records
C16_Step ==
  (pc = "capture" /\ pc' = "capture" /\ batchIndex' # batchIndex) =>
     /\ batchIndex' = batchIndex + 1
     /\ \A i \in 1..Len(tasks) : tasks[i].at = "fulfilled"
     /\ Len(allFrames') = Len(allFrames) + Len(tasks)
     /\ \A i \in 1..Len(tasks) :
          allFrames'[Len(allFrames) + i].frameIndex = tasks[i].frameIndex

\* C16: the extraction tasks in flight never exceed the batch size, and the
\* first task of batch k + 1 is launched only after every task of batch k has
\* settled and its records have been appended to the frame array.
C16_NoCrossBatchConcurrency == []C16_State /\ [][C16_Step]_vars

\* a later batch of several tasks is in flight, one task back and one still
\* suspended, and nothing has failed
C16_Witness ==
  /\ pc = "capture"
  /\ batchIndex >= 1
  /\ faults = <<>>
  /\ \E i, j \in 1..Len(tasks) :
       tasks[i].at = "fulfilled" /\ Pending(tasks[j])

\* C17: once the cleanup of a failed session has restored the render state,
\* no extraction task of the session is still pending, so none renders, reads
\* pixels or touches a pooled resource after the restoration.
C17_NoTaskAfterRestore ==
  (SessionEnded /\ outcome = "Failed" /\ ~render.exportMode) =>
    /\ \A t \in orphans : t.kind # "frame"
    /\ \A i \in 1..Len(tasks) : ~(tasks[i].kind = "frame" /\ Pending(tasks[i]))

\* C20: when handleExport has finished, on any path, the play/pause state is
\* the one from the moment export was invoked -- also when the run failed
\* before the play state was saved, and when the canvas was missing.
C20_PlayStateRestored == SessionEnded => isPlaying = before.isPlaying

\* a run of handleExport is between its invocation and its finally block
Running == pc \notin {"idle", "ended"}

\* C18: from the moment a session has set the exporting flag until its own
\* cleanup the flag stays true, and the progress value is the one the session
\* set last: no delayed reset of an earlier invocation clears them while a
\* later session is running.
C18_FlagHeldWhileRunning ==
  Running => (exporting /\ exportProgress = LastProgress(calls, 0))

\* the PNG files in the staging area whose number is above the frame count
StaleFrames ==
  { name \in DOMAIN fs :
      Len(name) = 3 /\ name[1] = "frame" /\ name[2] > frameCount }

\* C19: when the encoder is invoked with image-sequence input, the staging
\* area holds no frameN.png of an earlier session, in particular none with N
\* above the frame count of the session.
C19_NoStaleFrames ==
  (pc = "exec" /\ Last(execLog).format = "image2") => StaleFrames = {}

\* the progress values set during the run, in the order they were set
ProgressCalls == SelectSeq(calls, LAMBDA c : c.op \in ProgressOps)

\* C21: within a session the progress values set stay in 0..100 and never
\* decrease, from the start of the session to its terminal value: over the
\* capture batches, the write batches and chunks, the assignment after the
\* write stage and the encoder's progress events.
C21_ProgressMonotone ==
  /\ exportProgress \in 0..100
  /\ \A i \in 1..Len(ProgressCalls) : ProgressCalls[i].arg \in 0..100
  /\ \A i, j \in 1..Len(ProgressCalls) :
       i < j => ProgressCalls[i].arg <= ProgressCalls[j].arg

\* the frame indices of the extraction tasks launched so far: the records of
\* the frame array and the tasks of the batch in flight
LaunchedFrames ==
  { allFrames[i].frameIndex : i \in 1..Len(allFrames) }
    \cup { tasks[i].frameIndex : i \in 1..Len(tasks) }

\* C22: the frames 0 .. frameCount - 1 are split into ceil(frameCount /
\* batchSize) contiguous, disjoint batches taken in ascending order, each of
\* batchSize frames except a possibly shorter last one, with batchSize the
\* capture size of the preset capped at frameCount; every frame belongs to
\* exactly one batch and is extracted exactly once: while batch b is in flight
\* the launches so far are as many as the frames below the end of b, and they
\* are those frames.
C22_BatchPartition ==
  LET size == IF config.frameCaptureSize < frameCount
              THEN config.frameCaptureSize ELSE frameCount
      count == (frameCount + size - 1) \div size
      first == batchIndex * size
      next == IF first + size < frameCount THEN first + size ELSE frameCount
  IN  /\ batchSize = size /\ batches = count
      /\ pc = "capture" =>
           /\ batchIndex \in 0..(count - 1)
           /\ Len(tasks) = next - first
           /\ Len(tasks) >= 1
           /\ batchIndex < count - 1 => Len(tasks) = size
           /\ batchIndex = count - 1 => next = frameCount
           /\ \A i \in 1..Len(tasks) :
                tasks[i].kind = "frame" /\ tasks[i].frameIndex = first + i - 1
           /\ Len(allFrames) + Len(tasks) = next
           /\ LaunchedFrames = 0..(next - 1)

\* the last batch of at least three, shorter than the others, is in flight
C22_Witness ==
  /\ pc = "capture"
  /\ batches >= 3
  /\ batchIndex = batches - 1
  /\ Len(tasks) < batchSize
  /\ Len(allFrames) = batchIndex * batchSize

\* the write stage is staging frames as image files
WritingImages == pc \in {"write_override", "write_fallback", "write_png"}

\* every write closure in flight carries the 1-based name of its own frame,
\* no two carry the same name, and a name is not in the staging area before
\* its closure has written it; the encoder starts reading at number 1
PngNamedOnce ==
  /\ WritingImages =>
       \A i \in 1..Len(tasks) :
         /\ tasks[i].kind = "write"
         /\ tasks[i].name = tasks[i].frameIndex + 1
         /\ tasks[i].name = writeIndex + i
         /\ \A j \in 1..Len(tasks) : j # i => tasks[j].name # tasks[i].name
         /\ Pending(tasks[i]) => FrameFile(tasks[i].name) \notin DOMAIN fs
         /\ tasks[i].at = "fulfilled" => FrameFile(tasks[i].name) \in DOMAIN fs
  /\ (pc = "exec" /\ Last(execLog).format = "image2") =>
       /\ Last(execLog).startNumber = 1
       /\ AllImagesStaged
       /\ StaleFrames = {}

\* C23: in compressed-image transport -- PNG mode, the override and the
\* fallback alike -- the frame with index k is staged as frame{k+1}.png, each
\* name frame1.png .. frame{frameCount}.png is written exactly once, with the
\* payload of frame k, and the encoder is told to start at number 1.
C23_PngNaming ==
  /\ PngNamedOnce
  /\ \A k \in 0..(frameCount - 1) :
       FrameFile(k + 1) \in DOMAIN fs =>
         /\ fs[FrameFile(k + 1)].kind = "png"
         /\ fs[FrameFile(k + 1)].len > 0
         /\ fs[FrameFile(k + 1)].frame = k

\* C24: when the raw concatenation has succeeded, the staged blob has length
\* exportWidth * exportHeight * 4 * frameCount and its segment i is exactly
\* the payload of the record whose frameIndex is i, for every i in
\* 0 .. frameCount - 1, no segment holding bytes of another frame.
C24_RawBlobLayout ==
  RawFile \in DOMAIN fs =>
    /\ fs[RawFile].len = exportWidth * exportHeight * 4 * frameCount
    /\ Len(fs[RawFile].segments) = frameCount
    /\ \A i \in 0..(frameCount - 1) :
         /\ fs[RawFile].segments[i + 1].frame = i
         /\ fs[RawFile].segments[i + 1].intact

\* C28: at every point of the capture the record at position i of the frame
\* array has frameIndex i, also in the array a settled batch is appended to
\* and that is then sorted: the final sort changes nothing, the
\* clearing of old payloads empties exactly the records of the frames it
\* addresses by position, and PNG mode names each file by the position that
\* equals the frame's index.
C28_PositionConsistent ==
  /\ pc = "capture" =>
       \A i \in 1..Len(allFrames) :
         /\ allFrames[i].frameIndex = i - 1
         /\ allFrames[i].frameData.len > 0 => allFrames[i].frameData.frame = i - 1
  /\ (pc = "capture" /\ AllFulfilled(tasks)) =>
       LET collected == ClearOldFrames(allFrames \o BatchResults(tasks), batchIndex)
       IN  /\ \A i \in 1..Len(collected) : collected[i].frameIndex = i - 1
           /\ SortFrames(collected) = collected
  /\ pc = "write_png" =>
       \A i \in 1..Len(tasks) :
         /\ tasks[i].name = tasks[i].frameIndex + 1
         /\ allFrames[tasks[i].name].frameIndex = tasks[i].frameIndex

\* the capture is still running after old payloads were cleared by position,
\* and the task of the batch in flight has settled
C28_Witness ==
  /\ pc = "capture"
  /\ \E i \in 1..Len(allFrames) : allFrames[i].frameData.len = 0
  /\ Len(tasks) >= 1
  /\ AllFulfilled(tasks)

\* the positions of the texture reclamation passes among the calls of the run
GcPasses == { i \in 1..Len(calls) : calls[i].op = "textureGC.run" }

\* the position of the last texture reclamation pass among the first n calls
\* of the run, 0 when there is none
RECURSIVE LastGcPass(_)
LastGcPass(n) ==
  IF n = 0 THEN 0
  ELSE IF calls[n].op = "textureGC.run" THEN n
  ELSE LastGcPass(n - 1)

\* the calls the run makes up to the end of the capture loop
LoopOps == {"setExportProgress", "setExportMode(true)", "textureGC.run"}

\* C29: textureGC.maxIdle is raised only while the capture loop runs; once
\* the loop has been left, by completion or by a rejected extraction, the
\* limit is the one it was before the capture, and the last reclamation pass
\* of the run was made at the exit of the loop, while the limit was still
\* raised: only calls of the loop precede it and no call of the loop follows.
C29_IdleLimitRestored ==
  /\ pc = "capture" => maxIdle = MaxSafeInteger
  /\ pc # "capture" => maxIdle = DefaultMaxIdle
  /\ (ExportModeEntered /\ pc # "capture") =>
       /\ maxIdle = before.maxIdle
       /\ LET final == LastGcPass(Len(calls))
          IN  /\ final > 0
              /\ calls[final].arg = MaxSafeInteger
              /\ \A j \in 1..final : calls[j].op \in LoopOps
              /\ \A j \in (final + 1)..Len(calls) :
                   calls[j].op # "setExportMode(true)"
              /\ CaptureFailed => calls[final + 1] = ToastError
              /\ CaptureComplete =>
                   \A j \in (final + 1)..Len(calls) :
                     calls[j].op \in ProgressOps => calls[j].arg >= CaptureShare
                       \/ calls[j].op # "setExportProgress"

\* the loop was left by a rejected extraction after a reclamation pass inside
\* the loop, and the session has ended
C29_Witness ==
  /\ CaptureFailed
  /\ SessionEnded
  /\ Cardinality(GcPasses) >= 2
  /\ maxIdle = DefaultMaxIdle

\* the objects of a list
Range(seq) == { seq[i] : i \in 1..Len(seq) }

\* no object is in the list twice
NoDuplicate(pool) == \A i, j \in 1..Len(pool) : i # j => pool[i] # pool[j]

\* C25: under every interleaving of the frame tasks and conversion closures,
\* an object a task got from an acquire is not idle, no other task refers to
\* it until it has been released, and no object is in an idle list twice.
C25_PoolHandoff ==
  /\ NoDuplicate(pixelBufferPool)
  /\ NoDuplicate(tempCanvasPool)
  /\ \A h \in 1..Len(holding) :
       /\ \A b \in BagToSet(holding[h].buffers) :
            b \notin Range(pixelBufferPool) /\ CopiesIn(b, holding[h].buffers) = 1
       /\ \A c \in BagToSet(holding[h].canvases) :
            c \notin Range(tempCanvasPool) /\ CopiesIn(c, holding[h].canvases) = 1
  /\ \A h, g \in 1..Len(holding) :
       h # g =>
         /\ BagToSet(holding[h].buffers) \cap BagToSet(holding[g].buffers) = {}
         /\ BagToSet(holding[h].canvases) \cap BagToSet(holding[g].canvases) = {}

\* a task in flight reads into a buffer that another task created and
\* released, while a second task in flight holds its own buffer and canvases
\* are idle
C25_Witness ==
  /\ pc = "capture"
  /\ tempCanvasPool # <<>>
  /\ \E i, j \in 1..Len(tasks) :
       LET h == Len(holding) - Len(tasks) + i
           g == Len(holding) - Len(tasks) + j
       IN  /\ i # j
           /\ Pending(tasks[i]) /\ Pending(tasks[j])
           /\ \E b \in BagToSet(holding[h].buffers) : b.by[1] # holding[h].frameIndex
           /\ holding[g].buffers # EmptyBag

\* C26: after any sequence of acquire and release calls the idle buffer list
\* holds at most 10 buffers and the idle canvas list at most 5 canvases; a
\* release drops its object only when the list holds its maximum.
C26_PoolCaps ==
  /\ Len(pixelBufferPool) <= 10
  /\ Len(tempCanvasPool) <= 5
  /\ (lastCall.op = "releasePixelBuffer" /\ ~lastCall.pooled) => Len(pixelBufferPool) = 10
  /\ (lastCall.op = "releaseTempCanvas" /\ ~lastCall.pooled) => Len(tempCanvasPool) = 5

\* a buffer was released into a full list and dropped, the canvas list is
\* full as well, and the caller still holds a canvas
C26_Witness ==
  /\ lastCall = [op |-> "releasePixelBuffer", pooled |-> FALSE]
  /\ Len(pixelBufferPool) = PixelBufferPoolMax
  /\ Len(tempCanvasPool) = TempCanvasPoolMax
  /\ holding[1].canvases # EmptyBag

\* C27: a task that is not inside convertRGBAToPNG refers to no canvas of the
\* pool: the canvas the conversion borrowed was released when the call
\* completed, whether it returned the encoding or threw.
C27_CanvasReleased ==
  \A h \in 1..Len(holding) :
    LET i == h - (Len(holding) - Len(tasks))
    IN  (i >= 1 => tasks[i].at # "png") => holding[h].canvases = EmptyBag

=========================================================================
